---- MODULE Spec2Model ----
(***************************************************************************)
(* DaemonVigil: the per-user heartbeat scheduler (src/src/scheduler.py),   *)
(* the registry and per-user storage it reads (src/src/storage.py), the    *)
(* heartbeat executor (src/src/claude.py) and the message ingress          *)
(* (src/src/telegram_bot.py).                                              *)
(*                                                                         *)
(* Time is counted in whole minutes.  Everything runs on one asyncio event *)
(* loop: a handler is atomic up to its next await, and a synchronous       *)
(* network call made inside a handler lets the clock advance while nothing *)
(* else runs.  The timer engine (AsyncIOScheduler) is modelled by the      *)
(* behaviour of the calls the source makes on it: add_job with             *)
(* IntervalTrigger, replace_existing, max_instances, coalesce, the default *)
(* misfire grace time of one second, get_job, remove_job, start, shutdown. *)
(***************************************************************************)
EXTENDS Integers, Sequences, FiniteSets, Bags, TLC

VARIABLES
    now,          \* wall clock, minutes since the process started
    engine,       \* self.scheduler state: "stopped" | "running"
    pending,      \* jobs added while the engine is stopped (tentative jobs)
    jobstore,     \* jobs of the running engine
    instances,    \* executor bookkeeping: running instances per job id
    user_states,  \* self.user_states: user_id -> bool (a dict)
    registry,     \* users.json: ordered list of [id, status]
    cfgFile,      \* users/<id>/user_config.json per user
    storage_cache,\* _user_storage_cache: the ids that have a cached handle
    messages,     \* users/<id>/messages.json per user: the message log
    notes,        \* users/<id>/scratchpad.json per user: the note log
    thr,          \* callers of the storage layer that are inside a call
    user_registry,\* _user_registry: "none", or the instance it refers to
    tasks,        \* the update handlers that have not returned (a bag)
    app,          \* what DaemonVigil.get_instance() gives the commands:
                  \* "main" (the application, its scheduler set) or "none"
    ev            \* what the latest step let the outside observe, if it was
                  \* a timer firing or the end of an awaited send

vars == << now, engine, pending, jobstore, instances, user_states, registry,
           cfgFile, storage_cache, messages, notes, thr, user_registry, tasks,
           app, ev >>

storeVars == << storage_cache, messages, notes, thr, user_registry, tasks, app >>

schedVars == << now, engine, pending, jobstore, instances, user_states,
                registry, ev >>

----------------------------------------------------------------------------
\* Bounds of the model.
MaxTime == 2
MaxInterval == 2
MaxBlock == 1
MaxPending == 2
MaxLog == 2
MaxTasks == 2
MaxHistory == 4

\* max_instances=1 in add_job.
max_instances == 1

Users == {"7", "42"}
Intervals == 1..MaxInterval

\* The scheduler taken alone is started from a registry that is empty or
\* holds this user, active (start() reads nothing but the active users).
StartupUsers == {"7"}
StartupStatuses == {"active"}

\* A persisted user_config.json: absent ("missing"), unparseable ("malformed")
\* or a config record ("ok"); the two fields carry no meaning unless "ok".
\* The record has the keys of the file: user_id ("own": the id of the
\* user whose directory holds the file), model, the two heartbeat fields and
\* the timestamps created_at and updated_at in minutes; a file found at
\* process start was written at or before minute 0.
NoConfig(st) == [state |-> st, user_id |-> "own", model |-> "m1",
                 heartbeat_enabled |-> TRUE,
                 heartbeat_interval_minutes |-> 1,
                 created_at |-> 0, updated_at |-> 0]
Config(e, m) == [state |-> "ok", user_id |-> "own", model |-> "m1",
                 heartbeat_enabled |-> e,
                 heartbeat_interval_minutes |-> m,
                 created_at |-> 0, updated_at |-> 0]
\* The files a user may have at process start: none, an unparseable one, or
\* a config with either flag value and either end of the interval range.
CfgFiles == {NoConfig("missing"), NoConfig("malformed"),
             Config(TRUE, 1), Config(FALSE, MaxInterval)}

\* The config files of a process in which the startup user has whatever
\* file and every other user has never been seen (has no file).
StartupCfgFiles ==
    { f \in [Users -> CfgFiles] :
        \A u \in Users \ StartupUsers : f[u] = NoConfig("missing") }

\* What a timer firing did.  op: how it ended; fire: the nominal fire time it
\* served; flag: is_enabled as the job read it; calls: process_heartbeat
\* invocations; store, config: the arguments of that call; sends, writes:
\* outbound messages and message-log appends; escaped: an exception left
\* heartbeat_job.
NoEvent == [op |-> "none", user |-> "none", fire |-> -1, flag |-> TRUE,
            calls |-> 0, store |-> "none", config |-> NoConfig("missing"),
            sends |-> 0, writes |-> 0, escaped |-> FALSE]

\* The callers that may be inside a storage call at the same time.
Threads == {"t1", "t2"}

\* An entry of the message log, {role, content, timestamp}, by its role; an
\* entry of the note log, {note, timestamp}.
Message(role) == [role |-> role]

\* limit=None of get_recent_messages.
NoLimit == -1

\* A caller that is in no storage call.
Idle == [pc |-> "idle", user |-> "none", data |-> << >>,
         config |-> NoConfig("missing"), entry |-> Message("user"),
         enabled |-> TRUE, minutes |-> 1,
         kwargs |-> << >>, limit |-> NoLimit, raised |-> FALSE,
         step |-> 0, locks |-> {}, instance |-> "none", blocks |-> 0]

\* The storage layer of a fresh process: an empty handle cache, no caller
\* inside a call, empty logs.
StoreInit ==
    /\ storage_cache = {}
    /\ messages = [u \in Users |-> << >>]
    /\ notes = [u \in Users |-> << >>]
    /\ thr = [t \in Threads |-> Idle]
    /\ user_registry = "none"
    /\ tasks = EmptyBag

\* The event loop runs one callback at a time: a handler that is between two
\* of its awaits (here: inside or between the registry calls of
\* handle_message) keeps the loop, and no other handler, timer or call made
\* on the loop runs until it awaits or returns.  Callers outside the loop
\* are not held back.
LoopIdle ==
    \A k \in BagToSet(tasks) :
        k.at \notin {"register_user", "register_user_write",
                     "update_last_seen", "update_last_seen_write"}

----------------------------------------------------------------------------
\* users.json as it may be found at process start: an ordered list of user
\* records, at most one per id (register_user appends only absent ids).  A
\* record has the user's id and status and the timestamps registered_at and
\* last_seen in minutes; a record found at process start was written at or
\* before minute 0.
RegistryFiles(ids, sts) ==
    { r \in UNION { [1..n -> [id : ids, status : sts, registered_at : {0},
                              last_seen : {0}]] : n \in 0..Cardinality(ids) } :
        \A i, j \in DOMAIN r : r[i].id = r[j].id => i = j }

RegisteredIds(r) == { r[i].id : i \in DOMAIN r }

\* users.json between the open(path, 'w') of a write, which empties the
\* file, and the end of its json.dump: no JSON document, json.load raises
\* on it.
Truncated == << [id |-> "none", status |-> "truncated", registered_at |-> 0,
                last_seen |-> 0] >>

\* UserRegistry.list_users(status="active"): matching records, insertion order.
list_users(r) == SelectSeq(r, LAMBDA rec : rec.status = "active")

----------------------------------------------------------------------------
Init ==
    /\ now = 0
    /\ engine = "stopped"
    /\ pending = << >>
    /\ jobstore = {}
    /\ instances = [u \in Users |-> 0]
    /\ user_states = [u \in {} |-> TRUE]
    /\ registry \in RegistryFiles(StartupUsers, StartupStatuses)
    /\ cfgFile \in [Users -> CfgFiles]
    /\ StoreInit
    /\ app = "main"
    /\ ev = NoEvent

----------------------------------------------------------------------------
\* The timer engine, as the source uses it.

\* Faulty variant: coalesce=False: the earliest due fire time is submitted first.
EarliestRunTime(j, t) == j.next

\* coalesce=True: of the fire times of job j that are due at t, only the
\* latest is submitted.
CoalescedRunTime(j, t) == j.next + ((t - j.next) \div j.interval) * j.interval

\* Faulty variant: no instance limit: every due occurrence is submitted.
NoInstanceLimit(u) == FALSE

\* max_instances=1: the executor refuses a job id that is already running.
MaxInstancesReached(u) == instances[u] >= max_instances

\* The engine's default misfire_grace_time is one second: a run time that is
\* a minute or more in the past when its instance starts is skipped as missed.
Misfired(run_time, t) == t > run_time

\* add_job(..., id=job_id, replace_existing=True) on a running engine.
RealAddJob(store, j) == { k \in store : k.id # j.id } \cup {j}

HasJobIn(store, u) == \E j \in store : j.id = u
JobIn(store, u) == CHOOSE j \in store : j.id = u
HasJob(u) == HasJobIn(jobstore, u)
JobOf(u) == JobIn(jobstore, u)
HasPendingIn(jobs, u) == \E i \in DOMAIN jobs : jobs[i].id = u

\* scheduler.get_job(job_id) is not None: on a stopped engine the tentative
\* jobs are searched, on a running one the job store.
job_exists_in(jobs, store, u) ==
    IF engine = "stopped" THEN HasPendingIn(jobs, u) ELSE HasJobIn(store, u)
job_exists(u) == job_exists_in(pending, jobstore, u)

\* pending with its first job of id u removed (remove_job on a stopped engine).
RemovePending(u) ==
    LET i == CHOOSE k \in DOMAIN pending :
                 /\ pending[k].id = u
                 /\ \A l \in 1..(k - 1) : pending[l].id # u
    IN  SubSeq(pending, 1, i - 1) \o SubSeq(pending, i + 1, Len(pending))

\* scheduler.start(): every tentative job is really added, in order, its
\* next run time computed from its trigger at that moment:
\* IntervalTrigger.get_next_fire_time(None, now) is the first fire time at or
\* after now of a trigger whose start date is the creation time plus the
\* interval.
RECURSIVE AddPending(_, _)
AddPending(store, jobs) ==
    IF jobs = << >> THEN store
    ELSE LET p == Head(jobs)
             m == p.interval
             first == IF p.start >= now THEN p.start
                      ELSE p.start + ((now - p.start + m - 1) \div m) * m
         IN  AddPending(RealAddJob(store,
                 [id |-> p.id, interval |-> m, next |-> first]),
                 Tail(jobs))

----------------------------------------------------------------------------
\* MultiUserHeartbeatScheduler

SetState(states, u, e) ==
    [x \in DOMAIN states \cup {u} |-> IF x = u THEN e ELSE states[x]]

\* Faulty variant: is_enabled with the default False for an unknown user.
is_enabled_default_off(states, u) == IF u \in DOMAIN states THEN states[u] ELSE FALSE

\* is_enabled: self.user_states.get(user_id, True)
is_enabled_in(states, u) == IF u \in DOMAIN states THEN states[u] ELSE TRUE
is_enabled(u) == is_enabled_in(user_states, u)

\* self.scheduler.add_job(...) of add_user at time `now`: a tentative job on
\* a stopped engine, a real job (replacing one of the same id) on a running
\* one.
AddJobPending(jobs, u, m) ==
    IF engine = "stopped"
    THEN Append(jobs, [id |-> u, interval |-> m, start |-> now + m])
    ELSE jobs

\* IntervalTrigger(minutes=m) created at `now`: its start date, and so its
\* first fire time, is now + m.
AddJobStore(store, u, m) ==
    IF engine = "stopped"
    THEN store
    ELSE RealAddJob(store, [id |-> u, interval |-> m, next |-> now + m])

\* The part of the scheduler's state that add_user touches.
Sched == [pending |-> pending, jobstore |-> jobstore,
          user_states |-> user_states]

\* add_user(user_id, interval_minutes, enabled) at time `now` on scheduler
\* state S.  On a stopped engine the job is only tentative and has no
\* next_run_time attribute yet, so the log statement that reads
\* job.next_run_time raises after the job and the flag were set: the effect
\* on S is the same, but the caller sees an AttributeError.
add_user(S, u, m, e) ==
    [pending     |-> AddJobPending(S.pending, u, m),
     jobstore    |-> AddJobStore(S.jobstore, u, m),
     user_states |-> SetState(S.user_states, u, e)]

add_user_raises == engine = "stopped"

AddUser(u, m, e) ==
    /\ engine = "stopped" => Len(pending) < MaxPending
    /\ LoopIdle
    /\ user_states' = SetState(user_states, u, e)
    /\ pending' = AddJobPending(pending, u, m)
    /\ jobstore' = AddJobStore(jobstore, u, m)
    /\ ev' = NoEvent
    /\ UNCHANGED << now, engine, instances, registry, cfgFile >>
    /\ UNCHANGED storeVars


\* remove_user(user_id)
RemoveUser(u) ==
    /\ IF job_exists(u)
       THEN IF engine = "stopped"
            THEN pending' = RemovePending(u) /\ UNCHANGED jobstore
            ELSE jobstore' = { j \in jobstore : j.id # u } /\ UNCHANGED pending
       ELSE UNCHANGED << pending, jobstore >>
    /\ user_states' = [x \in DOMAIN user_states \ {u} |-> user_states[x]]
    /\ ev' = NoEvent
    /\ UNCHANGED << now, engine, instances, registry, cfgFile >>
    /\ UNCHANGED storeVars

\* Faulty variant: pause_user drops the user's entry instead of clearing the flag.
pause_drops_entry(u) == [x \in DOMAIN user_states \ {u} |-> user_states[x]]

\* pause_user(user_id)
pause_user(u) == SetState(user_states, u, FALSE)

PauseUser(u) ==
    /\ user_states' = pause_user(u)
    /\ ev' = NoEvent
    /\ UNCHANGED << now, engine, pending, jobstore, instances, registry,
                    cfgFile >>
    /\ UNCHANGED storeVars

\* Faulty variant: resume_user re-arms the user's job from the current time.
ResumeRearms(u) ==
    /\ user_states' = SetState(user_states, u, TRUE)
    /\ jobstore' = { IF j.id = u THEN [j EXCEPT !.next = now + j.interval] ELSE j :
                       j \in jobstore }
    /\ ev' = NoEvent
    /\ UNCHANGED << now, engine, pending, instances, registry, cfgFile >>
    /\ UNCHANGED storeVars

\* resume_user(user_id)
resume_user(u) == SetState(user_states, u, TRUE)

ResumeUser(u) ==
    /\ user_states' = resume_user(u)
    /\ ev' = NoEvent
    /\ UNCHANGED << now, engine, pending, jobstore, instances, registry,
                    cfgFile >>
    /\ UNCHANGED storeVars

\* get_user_status(user_id).  next_run None is written NoRunTime.  The job
\* get_job returns on a stopped engine is a tentative one, which has no
\* next_run_time attribute: reading it raises AttributeError.
NoRunTime == -1

get_user_status(u) ==
    IF engine = "stopped" /\ HasPendingIn(pending, u)
    THEN [raised |-> TRUE, enabled |-> TRUE, next_run |-> NoRunTime,
          job_exists |-> FALSE]
    ELSE [raised |-> FALSE,
          enabled |-> is_enabled(u),
          next_run |-> IF job_exists(u) THEN JobOf(u).next ELSE NoRunTime,
          job_exists |-> job_exists(u)]

----------------------------------------------------------------------------
\* Storage manager and config store.

\* get_user_storage(user_id) returns a handle: the id is cached, or a
\* UserStorageManager can be constructed.  Construction writes a default
\* config when user_config.json is absent, and building that default calls
\* config.get_claude_model(), which src/src/config.py does not define: the
\* construction raises, nothing is cached and the file stays absent.  So a
\* handle exists, or can be made, exactly for the users whose config file
\* exists.  The lookup, the construction and the caching are done under
\* _cache_lock.
get_user_storage_ok(u) == u \in storage_cache \/ cfgFile[u].state # "missing"

\* The cache after a get_user_storage(u) that returned.
CacheWith(u) == storage_cache \cup {u}

\* UserConfigStorage.get_config(): UserConfig(**json) or an exception.
get_config_ok(u) == cfgFile[u].state = "ok"

----------------------------------------------------------------------------
\* One timer firing of user u's job: the engine's dispatch and heartbeat_job.

Event(u, op, run, flag, calls, sends, writes, escaped) ==
    [op |-> op, user |-> u, fire |-> run, flag |-> flag, calls |-> calls,
     store |-> IF calls > 0 THEN u ELSE "none",
     config |-> IF calls > 0 THEN cfgFile[u] ELSE NoConfig("missing"),
     sends |-> sends, writes |-> writes, escaped |-> escaped]

\* Faulty variant: heartbeat_job without its except clause.
ExceptionNotCaught == TRUE

\* heartbeat_job's try ... except Exception: an exception raised in its body
\* is logged there and does not leave the job.
ExceptionEscapes == FALSE

\* The flag check of heartbeat_job: the body goes on only when is_enabled.
TickEnabled(u) == is_enabled(u)

\* heartbeat_job(user_id) for the run time `run`, up to its first await that
\* yields to the event loop (telegram_bot.send_message) or to its end.
heartbeat_job(u, run) ==
    \/ \* flag off: "Heartbeat disabled ..., skipping"
       /\ ~TickEnabled(u)
       /\ ev' = Event(u, "skipped", run, is_enabled(u), 0, 0, 0, FALSE)
       /\ UNCHANGED << now, instances, storage_cache >>
    \/ \* get_user_storage raises: caught by the job's except
       /\ TickEnabled(u) /\ ~get_user_storage_ok(u)
       /\ ev' = Event(u, "loaderror", run, is_enabled(u), 0, 0, 0, ExceptionEscapes)
       /\ UNCHANGED << now, instances, storage_cache >>
    \/ \* get_config raises: caught by the job's except
       /\ TickEnabled(u) /\ get_user_storage_ok(u) /\ ~get_config_ok(u)
       /\ ev' = Event(u, "loaderror", run, is_enabled(u), 0, 0, 0, ExceptionEscapes)
       /\ storage_cache' = CacheWith(u)
       /\ UNCHANGED << now, instances >>
    \/ \* process_heartbeat raises while loading its context (before its own
       \* try): caught by the job's except
       /\ TickEnabled(u) /\ get_user_storage_ok(u) /\ get_config_ok(u)
       /\ ev' = Event(u, "raised", run, is_enabled(u), 1, 0, 0, ExceptionEscapes)
       /\ storage_cache' = CacheWith(u)
       /\ UNCHANGED << now, instances >>
    \/ \* the synchronous API call blocks the loop for d minutes, then fails
       \* (caught inside process_heartbeat) or chooses silence
       /\ TickEnabled(u) /\ get_user_storage_ok(u) /\ get_config_ok(u)
       /\ \E d \in 0..MaxBlock, o \in {"apierror", "silent"} :
             /\ now + d <= MaxTime
             /\ now' = now + d
             /\ ev' = Event(u, o, run, is_enabled(u), 1, 0, 0, FALSE)
       /\ storage_cache' = CacheWith(u)
       /\ UNCHANGED instances
    \/ \* the API call returns a send_message tool use: the job awaits
       \* telegram_bot.send_message and stays in flight
       /\ TickEnabled(u) /\ get_user_storage_ok(u) /\ get_config_ok(u)
       /\ \E d \in 0..MaxBlock :
             /\ now + d <= MaxTime
             /\ now' = now + d
       /\ instances' = [instances EXCEPT ![u] = @ + 1]
       /\ storage_cache' = CacheWith(u)
       /\ ev' = Event(u, "sending", run, is_enabled(u), 1, 0, 0, FALSE)

\* Faulty variant: the next run time is counted from the end of a late occurrence.
NextRunSkipsOne(j, t) == CoalescedRunTime(j, t) + 2 * j.interval

\* The next run time of job j after the engine processed it at time t: one
\* interval after the run time it submitted, whatever became of that run.
NextRunTime(j, t) == CoalescedRunTime(j, t) + j.interval

\* The engine processes user u's due job.
Fire(u) ==
    /\ LoopIdle
    /\ engine = "running"
    /\ HasJob(u)
    /\ JobOf(u).next <= now
    /\ LET j == JobOf(u)
           run == CoalescedRunTime(j, now)
       IN  /\ jobstore' = (jobstore \ {j}) \cup {[j EXCEPT !.next = NextRunTime(j, now)]}
           /\ \/ \* an instance is still running: the occurrence is dropped
                 /\ MaxInstancesReached(u)
                 /\ ev' = Event(u, "dropped", run, is_enabled(u), 0, 0, 0, FALSE)
                 /\ UNCHANGED << now, instances, storage_cache >>
              \/ \* the occurrence is already too late: skipped as missed
                 /\ ~MaxInstancesReached(u)
                 /\ Misfired(run, now)
                 /\ ev' = Event(u, "missed", run, is_enabled(u), 0, 0, 0, FALSE)
                 /\ UNCHANGED << now, instances, storage_cache >>
              \/ /\ ~MaxInstancesReached(u)
                 /\ ~Misfired(run, now)
                 /\ heartbeat_job(u, run)
    /\ UNCHANGED << engine, pending, user_states, registry, cfgFile,
                    messages, notes, thr, user_registry, tasks, app >>

\* The ends of an awaited send: sent and logged with no further
\* send_message block in the response ("sent") or with a further one, whose
\* send the job now awaits ("sentmore"); the send raised; or the message was
\* sent and add_message("assistant", ...) raised.
SendOps == {"sent", "sentmore", "senderror", "logerror"}

\* The awaited send_message of user u's in-flight job completes: sent and
\* logged to the message log (add_message("assistant", ...), which nothing
\* can interleave with on the event loop), or the send raised, or the
\* message was sent and the append to the log raised (both caught inside
\* process_heartbeat, which ends the loop over the blocks).  After a logged
\* send the loop over response.content goes on: the job ends when no
\* send_message block is left, and is suspended in the next send otherwise.
\* Whether a block is left is read when the loop gets there; responses have
\* further blocks as long as the log stays within MaxLog.
SendDone(u) ==
    /\ LoopIdle
    /\ instances[u] > 0
    /\ \E o \in SendOps :
          /\ o = "sentmore" => Len(messages[u]) + 1 < MaxLog
          /\ instances' = IF o = "sentmore" THEN instances
                          ELSE [instances EXCEPT ![u] = @ - 1]
          /\ ev' = Event(u, o, -1, TRUE, 0,
                         IF o = "senderror" THEN 0 ELSE 1,
                         IF o \in {"sent", "sentmore"} THEN 1 ELSE 0, FALSE)
          /\ messages' = IF o \in {"sent", "sentmore"}
                         THEN [messages EXCEPT ![u] = Append(@, Message("assistant"))]
                         ELSE messages
    /\ UNCHANGED << now, engine, pending, jobstore, user_states, registry,
                    cfgFile, storage_cache, notes, thr, user_registry, tasks, app >>

\* The clock advances.  An idle event loop runs a due job at once, so a
\* minute passes only when no job of a running engine is due; the
\* statements a handler runs between two awaits take no minute, except for
\* the synchronous API call.
AdvanceTime ==
    /\ LoopIdle
    /\ now < MaxTime
    /\ engine = "running" => \A j \in jobstore : j.next > now
    /\ now' = now + 1
    /\ ev' = NoEvent
    /\ UNCHANGED << engine, pending, jobstore, instances, user_states,
                    registry, cfgFile >>
    /\ UNCHANGED storeVars

----------------------------------------------------------------------------
\* start() and stop()

\* The loop of start() over the active users, in registry order, from
\* scheduler state S.  The first exception ends it: a storage handle that
\* cannot be constructed, a config that cannot be read, or add_user raising
\* on the still stopped engine.
RECURSIVE StartLoop(_, _)
StartLoop(users, S) ==
    IF users = << >> THEN [sched |-> S, raised |-> FALSE]
    ELSE LET u == Head(users).id
         IN  IF ~get_user_storage_ok(u) \/ ~get_config_ok(u)
             THEN [sched |-> S, raised |-> TRUE]
             ELSE LET S2 == add_user(S, u, cfgFile[u].heartbeat_interval_minutes,
                                     cfgFile[u].heartbeat_enabled)
                  IN  IF add_user_raises
                      THEN [sched |-> S2, raised |-> TRUE]
                      ELSE StartLoop(Tail(users), S2)

\* The users for whom the loop of start() obtained a storage handle before it
\* ended.
RECURSIVE StartLoopHandles(_)
StartLoopHandles(users) ==
    IF users = << >> THEN {}
    ELSE LET u == Head(users).id
         IN  IF ~get_user_storage_ok(u) THEN {}
             ELSE {u} \cup (IF ~get_config_ok(u) \/ add_user_raises THEN {}
                            ELSE StartLoopHandles(Tail(users)))

\* start() returns: its loop raised nothing and the engine could be started
\* (self.scheduler.start() raises SchedulerAlreadyRunningError when running).
StartReturns ==
    /\ ~StartLoop(list_users(registry), Sched).raised
    /\ engine = "stopped"

\* get_user_registry() on the event loop, where nothing interleaves with it:
\* the first call constructs the UserRegistry and stores it in
\* _user_registry, every later call returns what is stored.
get_user_registry(inst) == IF inst = "none" THEN "main" ELSE inst

\* start(): get_user_registry(), then the loop over the active users, then
\* scheduler.start().
Start ==
    /\ LoopIdle
    /\ Len(StartLoop(list_users(registry), Sched).sched.pending) <= MaxPending
    /\ LET R == StartLoop(list_users(registry), Sched)
       IN  /\ user_states' = R.sched.user_states
           /\ engine' = IF StartReturns THEN "running" ELSE engine
           /\ jobstore' = IF StartReturns
                          THEN AddPending(R.sched.jobstore, R.sched.pending)
                          ELSE R.sched.jobstore
           /\ pending' = IF StartReturns THEN << >> ELSE R.sched.pending
    /\ storage_cache' = storage_cache \cup StartLoopHandles(list_users(registry))
    /\ user_registry' = get_user_registry(user_registry)
    /\ ev' = NoEvent
    /\ UNCHANGED << now, instances, registry, cfgFile, messages, notes, thr,
                    tasks, app >>

\* stop(): self.scheduler.shutdown() on a running engine.  The job store is
\* emptied and the asyncio executor cancels the jobs that are awaiting.  (On
\* a stopped engine shutdown raises SchedulerNotRunningError and changes
\* nothing.)
Stop ==
    /\ LoopIdle
    /\ engine = "running"
    /\ engine' = "stopped"
    /\ jobstore' = {}
    /\ instances' = [u \in Users |-> 0]
    /\ ev' = NoEvent
    /\ UNCHANGED << now, pending, user_states, registry, cfgFile >>
    /\ UNCHANGED storeVars

----------------------------------------------------------------------------
\* Registry and message ingress

\* The keys of a config file (state is not one: it tells whether the file
\* is there and parses).
ConfigKeys(data) == DOMAIN data \ {"state"}

\* Faulty variant: update_config without its list of keys it never sets.
NoProtectedKeys == {}

\* The keys update_config never sets: key not in ["user_id", "created_at"].
ProtectedKeys == {"user_id", "created_at"}

\* update_config(**kwargs) at time t on the dict `data` it read: every
\* given key that is a key of data and is not protected gets its value, then
\* updated_at gets the current time.
update_config(data, kwargs, t) ==
    [k \in DOMAIN data |->
        IF k = "updated_at" THEN t
        ELSE IF k \in DOMAIN kwargs /\ k \in ConfigKeys(data)
                /\ k \notin ProtectedKeys
             THEN kwargs[k]
             ELSE data[k]]

\* The first record of user u in the list r (the loops of the registry stop
\* at the first match).
FirstIndex(r, u) ==
    CHOOSE i \in DOMAIN r :
        r[i].id = u /\ \A j \in DOMAIN r : r[j].id = u => i <= j

\* The record register_user creates at time `now`.
new_user(u) == [id |-> u, status |-> "active", registered_at |-> now,
                last_seen |-> now]

\* Faulty variant: register_user without its look for an existing record.
register_user_unchecked(r, u) == Append(r, new_user(u))

\* UserRegistry.register_user: append an active record unless the id exists.
register_user(r, u) ==
    IF u \in RegisteredIds(r) THEN r
    ELSE Append(r, new_user(u))

\* Faulty variant: update_last_seen adds a record for an id it does not find.
update_last_seen_upsert(r, u) ==
    IF u \in RegisteredIds(r)
    THEN [r EXCEPT ![FirstIndex(r, u)].last_seen = now]
    ELSE Append(r, new_user(u))

\* UserRegistry.update_last_seen at time `now`: the first record of the id
\* gets the current time; an unknown id is logged and nothing is written.
update_last_seen(r, u) ==
    IF u \in RegisteredIds(r)
    THEN [r EXCEPT ![FirstIndex(r, u)].last_seen = now]
    ELSE r

\* The awaits of an update handler: the greeting of a new user
\* (telegram_bot.py 66), the reply (claude.py 292) and the failure notice
\* (main.py 70) of a text message, the notice (commands.py 141) and the
\* report (commands.py 178) of "...heartbeat test", the response of
\* "...heartbeat on" and "...heartbeat off" (commands.py 199, 220).
\* A handler coroutine that has not returned.  at: the await it is
\* suspended at ("greeting", "reply", "notice", "test_notice", "report",
\* "response"), or the registry call of handle_message it is about to make
\* ("register_user", "update_last_seen") or is inside, between self.read()
\* and self.write(data) ("register_user_write", "update_last_seen_write");
\* text: what the update held ("message", or the command "test", "on",
\* "off" or one of Commands); greeted: get_user found no record (the local `user` is None), so
\* that the handler registers and greets the user; op: the outcome the
\* handler has reached already and reports after the send (of the debug
\* run, of the on or off command), and at the failure notice "sent" when the
\* reply had been sent before the failure; data: inside a registry call, the
\* list the call read, as the call changed it.
Task(u, at, text, greeted, op) ==
    [user |-> u, at |-> at, text |-> text, greeted |-> greeted, op |-> op,
     data |-> << >>]

\* The suspended handlers with k added, and with k resumed.
Suspend(rest, k) == rest (+) SetToBag({k})
Resumed(k) == tasks (-) SetToBag({k})

\* The greeting in the count of the messages sent by a handler.
Sent(greeted) == IF greeted THEN 1 ELSE 0

\* The events of an inbound message, in ev.op: an exception left handle_message
\* ("welcome_failed" while greeting a new user, "msg_unhandled" on the direct
\* path), on_user_message caught a failure and its notice was sent
\* ("msg_noticed") or the send of the notice raised too ("msg_unnoticed"),
\* the response was empty ("msg_quiet"), or a reply was sent and logged
\* ("msg_replied").
\* on_user_message up to its first await or its return, for a handler whose
\* other suspended handlers are `rest`.  get_user_storage finds the cached
\* handle.  An exception of get_config, of respond_to_user while it loads
\* the messages and the notes, or of the synchronous API call, which blocks
\* the loop for d minutes and whose exception respond_to_user logs and
\* raises again, reaches the except, which awaits the send of the failure
\* notice.  A response without text is logged and the handler returns; a
\* response with text is sent: the handler awaits that send.  In ev, sends
\* counts the messages sent so far by this handler and writes its appends to
\* the message log.
on_user_message(u, greeted, rest) ==
    \/ \* get_config raises, or the loading of the context
       /\ tasks' = Suspend(rest, Task(u, "notice", "message", greeted, "none"))
       /\ ev' = Event(u, "notice", -1, TRUE, 0, Sent(greeted), 1, FALSE)
       /\ UNCHANGED now
    \/ /\ get_config_ok(u)
       /\ \E d \in 0..MaxBlock :
             /\ now + d <= MaxTime
             /\ now' = now + d
             /\ \/ \* the API call raises
                   /\ tasks' = Suspend(rest, Task(u, "notice", "message",
                                                  greeted, "none"))
                   /\ ev' = Event(u, "notice", -1, TRUE, 0, Sent(greeted), 1,
                                  FALSE)
                \/ \* the response has no text
                   /\ tasks' = rest
                   /\ ev' = Event(u, "msg_quiet", -1, TRUE, 0, Sent(greeted), 1,
                                  FALSE)
                \/ \* the response has text
                   /\ tasks' = Suspend(rest, Task(u, "reply", "message",
                                                  greeted, "none"))
                   /\ ev' = Event(u, "reply", -1, TRUE, 0, Sent(greeted), 1,
                                  FALSE)

\* handle_message after update_last_seen, for a text that is no command:
\* get_user_storage and add_message("user", ...), outside any try, so that
\* an exception of either leaves the handler; then the callback.
direct_path(u, greeted, rest) ==
    /\ \/ \* get_user_storage raises
          /\ ~get_user_storage_ok(u)
          /\ tasks' = rest
          /\ ev' = Event(u, "msg_unhandled", -1, TRUE, 0, Sent(greeted), 0, TRUE)
          /\ UNCHANGED << now, storage_cache, messages >>
       \/ \* add_message("user", ...) raises (the log cannot be written)
          /\ get_user_storage_ok(u)
          /\ storage_cache' = CacheWith(u)
          /\ tasks' = rest
          /\ ev' = Event(u, "msg_unhandled", -1, TRUE, 0, Sent(greeted), 0, TRUE)
          /\ UNCHANGED << now, messages >>
       \/ \* logged, and on_user_message is called
          /\ get_user_storage_ok(u)
          /\ Len(messages[u]) < MaxHistory
          /\ storage_cache' = CacheWith(u)
          /\ messages' = [messages EXCEPT ![u] = Append(@, Message("user"))]
          /\ on_user_message(u, greeted, rest)
    /\ UNCHANGED << user_states, cfgFile >>

\* Faulty variant: process_heartbeat sends and logs the message in debug
\* mode as well.
delivers_always(debug) == TRUE

\* process_heartbeat, the send_message block: `if not debug:` guards the
\* send to the user and the append to the message log.
delivers(debug) == ~debug

\* The events of a "...heartbeat on" or "...heartbeat off": the flag and the
\* config were set ("switched"), the except of the command caught an
\* exception of get_user_storage or update_config ("switch_error"), or
\* get_instance() gave no application with a scheduler and the response is
\* "Scheduler not available" ("unavailable").
SwitchOps == {"switched", "switch_error", "unavailable"}

\* handle_heartbeat("on") (e = TRUE) or ("off") (e = FALSE) up to its await.
\* `if app and app.scheduler:` resume_user or pause_user, then
\* get_user_storage and update_config(heartbeat_enabled=e) inside the try of
\* the command; else nothing is set.  Then the send of the response.
\* update_config raises when the file cannot be parsed or cannot be written.
\* In ev, flag is the value asked for.
heartbeat_switch(u, e, greeted, rest) ==
    /\ \E o \in SwitchOps :
          /\ \/ \* no application, or no scheduler in it
                /\ o = "unavailable"
                /\ app = "none"
                /\ UNCHANGED << user_states, cfgFile, storage_cache >>
             \/ \* get_user_storage raises
                /\ o = "switch_error"
                /\ app = "main"
                /\ user_states' = IF e THEN resume_user(u) ELSE pause_user(u)
                /\ ~get_user_storage_ok(u)
                /\ UNCHANGED << cfgFile, storage_cache >>
             \/ \* update_config raises: the file cannot be parsed, or
                \* cannot be written
                /\ o = "switch_error"
                /\ app = "main"
                /\ user_states' = IF e THEN resume_user(u) ELSE pause_user(u)
                /\ get_user_storage_ok(u)
                /\ storage_cache' = CacheWith(u)
                /\ UNCHANGED cfgFile
             \/ \* update_config writes the flag
                /\ o = "switched"
                /\ app = "main"
                /\ user_states' = IF e THEN resume_user(u) ELSE pause_user(u)
                /\ get_user_storage_ok(u) /\ get_config_ok(u)
                /\ storage_cache' = CacheWith(u)
                /\ cfgFile' = [cfgFile EXCEPT ![u] =
                                  update_config(@, "heartbeat_enabled" :> e, now)]
          /\ tasks' = Suspend(rest, Task(u, "response",
                                         IF e THEN "on" ELSE "off", greeted, o))
          /\ ev' = Event(u, "response", -1, e, 0, Sent(greeted), 0, FALSE)
    /\ UNCHANGED << now, messages >>

\* The commands besides "...heartbeat test", "...heartbeat on" and
\* "...heartbeat off", by the text after the "...": "model opus" stands for
\* the model command with one of the documented aliases, "model other" for
\* one with any other argument, "heartbeat other" for an unknown subcommand,
\* "other" for an unknown command and "" for a text of the three dots only.
Commands == {"status", "model", "model opus", "model other",
             "heartbeat status", "heartbeat other", "other", ""}

\* handle_message after update_last_seen: a text that starts with "..." goes
\* to handle_command and the handler returns after it, any other text takes
\* the direct path.  handle_command splits the command and takes parts[0],
\* which raises IndexError for an empty command; an unknown command returns
\* False and nothing is sent.  handle_status builds the report
\* (get_user_storage, get_config, the usage log, get_user_status inside a
\* try whose except writes the fallback lines, the message and note logs)
\* and awaits its send.  handle_model calls get_user_storage and get_config,
\* then, without an argument, shows the model and awaits the send; with an
\* argument it evaluates `model_alias in config.MODEL_ALIASES`, a name that
\* src/src/config.py does not define: AttributeError, for a documented alias
\* as for any other argument, so that update_config(model=...) is never
\* reached.  Nothing of handle_status and handle_model is inside a try: an
\* exception leaves handle_message ("command_failed").  "...heartbeat status" answers
\* "Scheduler not available" without an application, else calls
\* get_user_status, get_user_storage and get_config inside a try whose
\* except makes the error the response ("status_error").  An unknown
\* subcommand gets the list of subcommands.
after_last_seen(u, text, greeted, rest) ==
    LET respond(o) ==
            /\ tasks' = Suspend(rest, Task(u, "response", text, greeted, o))
            /\ ev' = Event(u, "response", -1, is_enabled(u), 0, Sent(greeted),
                           0, FALSE)
        escape ==
            /\ tasks' = rest
            /\ ev' = Event(u, "command_failed", -1, is_enabled(u), 0,
                           Sent(greeted), 0, TRUE)
    IN
    \/ /\ text = "message"
       /\ direct_path(u, greeted, rest)
    \/ \* handle_heartbeat("test") up to its first await, the send of the
       \* notice that the check runs
       /\ text = "test"
       /\ tasks' = Suspend(rest, Task(u, "test_notice", "test", greeted, "none"))
       /\ ev' = Event(u, "test_notice", -1, is_enabled(u), 0, Sent(greeted), 0,
                      FALSE)
       /\ UNCHANGED << now, storage_cache, messages, user_states, cfgFile >>
    \/ /\ text \in {"on", "off"}
       /\ heartbeat_switch(u, text = "on", greeted, rest)
    \/ /\ text \in Commands
       /\ \/ \* cmd = parts[0] of an empty list
             /\ text = ""
             /\ escape
             /\ UNCHANGED << storage_cache, cfgFile >>
          \/ \* return False
             /\ text = "other"
             /\ tasks' = rest
             /\ ev' = Event(u, "ignored", -1, is_enabled(u), 0, Sent(greeted),
                            0, FALSE)
             /\ UNCHANGED << storage_cache, cfgFile >>
          \/ /\ text = "heartbeat other"
             /\ respond("heartbeat_help")
             /\ UNCHANGED << storage_cache, cfgFile >>
          \/ /\ text = "heartbeat status"
             /\ \/ /\ app = "none"
                   /\ respond("unavailable")
                   /\ UNCHANGED storage_cache
                \/ \* get_user_status or get_user_storage raises
                   /\ app = "main"
                   /\ get_user_status(u).raised \/ ~get_user_storage_ok(u)
                   /\ respond("status_error")
                   /\ UNCHANGED storage_cache
                \/ \* get_config raises
                   /\ app = "main"
                   /\ ~get_user_status(u).raised
                   /\ get_user_storage_ok(u) /\ ~get_config_ok(u)
                   /\ storage_cache' = CacheWith(u)
                   /\ respond("status_error")
                \/ /\ app = "main"
                   /\ ~get_user_status(u).raised
                   /\ get_user_storage_ok(u) /\ get_config_ok(u)
                   /\ storage_cache' = CacheWith(u)
                   /\ respond("heartbeat_status")
             /\ UNCHANGED cfgFile
          \/ /\ text \in {"status", "model", "model opus", "model other"}
             /\ \/ \* get_user_storage raises
                   /\ ~get_user_storage_ok(u)
                   /\ escape
                   /\ UNCHANGED << storage_cache, cfgFile >>
                \/ \* get_config raises
                   /\ get_user_storage_ok(u) /\ ~get_config_ok(u)
                   /\ storage_cache' = CacheWith(u)
                   /\ escape
                   /\ UNCHANGED cfgFile
                \/ /\ get_user_storage_ok(u) /\ get_config_ok(u)
                   /\ storage_cache' = CacheWith(u)
                   /\ \/ \* the report is built, or reading the usage log,
                         \* the messages or the notes raises
                         /\ text = "status"
                         /\ respond("status") \/ escape
                         /\ UNCHANGED cfgFile
                      \/ /\ text = "model"
                         /\ respond("model")
                         /\ UNCHANGED cfgFile
                      \/ \* config.MODEL_ALIASES raises
                         /\ text \in {"model opus", "model other"}
                         /\ escape
                         /\ UNCHANGED cfgFile
       /\ UNCHANGED << now, messages, user_states >>

\* TelegramBot.handle_message for an update of user u, up to the return of
\* get_user: get_user_registry, and the self.read() of get_user, which
\* tells whether the user has a record.  The handler goes on with
\* register_user when it has none and with update_last_seen when it has
\* one.  At most MaxTasks handlers have not returned at a time, and the
\* handlers append to a message log of fewer than MaxHistory entries.
handle_message(u, text) ==
    /\ LoopIdle
    /\ BagCardinality(tasks) < MaxTasks
    /\ user_registry' = get_user_registry(user_registry)
    /\ tasks' = Suspend(tasks,
                        IF u \in RegisteredIds(registry)
                        THEN Task(u, "update_last_seen", text, FALSE, "none")
                        ELSE Task(u, "register_user", text, TRUE, "none"))
    /\ ev' = NoEvent
    /\ UNCHANGED << now, engine, pending, jobstore, instances, user_states,
                    registry, cfgFile, storage_cache, messages, notes, thr,
                    app >>

\* A text message of user u arrives.
HandleMessage(u) == handle_message(u, "message")

\* "...heartbeat test" of user u arrives.
HeartbeatTest(u) == handle_message(u, "test")

\* "...heartbeat on" (e = TRUE) or "...heartbeat off" (e = FALSE) of user u
\* arrives.
HeartbeatSwitch(u, e) == handle_message(u, IF e THEN "on" ELSE "off")

\* The self.read() of the registry call handler k is about to make, and
\* what the call does with the list before it writes.  register_user
\* returns the record it finds, without writing, and appends a record
\* otherwise; the handler then greets the user.  update_last_seen sets the
\* time of the first record of the id; when it finds none it logs a warning
\* and the handler goes on.  The registry lock is released when read()
\* returns.
HandlerRead(k) ==
    /\ k.at \in {"register_user", "update_last_seen"}
    /\ IF k.at = "register_user"
       THEN /\ IF k.user \in RegisteredIds(registry)
               THEN /\ tasks' = Suspend(Resumed(k), [k EXCEPT !.at = "greeting"])
                    /\ ev' = Event(k.user, "greeting", -1, TRUE, 0, 0, 0, FALSE)
               ELSE /\ tasks' = Suspend(Resumed(k),
                                        [k EXCEPT !.at = "register_user_write",
                                                  !.data = register_user(registry,
                                                                         k.user)])
                    /\ ev' = NoEvent
            /\ UNCHANGED << now, storage_cache, messages, user_states,
                            cfgFile >>
       ELSE IF k.user \in RegisteredIds(registry)
            THEN /\ tasks' = Suspend(Resumed(k),
                                     [k EXCEPT !.at = "update_last_seen_write",
                                               !.data = update_last_seen(registry,
                                                                         k.user)])
                 /\ ev' = NoEvent
                 /\ UNCHANGED << now, storage_cache, messages, user_states,
                                 cfgFile >>
            ELSE after_last_seen(k.user, k.text, k.greeted, Resumed(k))
    /\ UNCHANGED << engine, pending, jobstore, instances, registry, notes, thr,
                    user_registry, app >>

\* The self.write(data) of the registry call handler k is inside: the file
\* becomes the list the call read, as the call changed it, whatever was
\* written to the file since.  After register_user the handler awaits the
\* send of the greeting; after update_last_seen it goes on to its next
\* await or its return.  (The locks the handler takes after that are not
\* those of the registry, and no caller outside the loop is in the calls
\* that take them.)
HandlerWrite(k) ==
    /\ k.at \in {"register_user_write", "update_last_seen_write"}
    /\ registry' = k.data
    /\ IF k.at = "register_user_write"
       THEN /\ tasks' = Suspend(Resumed(k),
                                [k EXCEPT !.at = "greeting", !.data = << >>])
            /\ ev' = Event(k.user, "greeting", -1, TRUE, 0, 0, 0, FALSE)
            /\ UNCHANGED << now, storage_cache, messages, user_states,
                            cfgFile >>
       ELSE after_last_seen(k.user, k.text, k.greeted, Resumed(k))
    /\ UNCHANGED << engine, pending, jobstore, instances, notes, thr,
                    user_registry, app >>

\* The awaited greeting of handler k completes: it raised, and the exception
\* leaves handle_message; or it was sent, and the handler goes on with
\* update_last_seen.
WelcomeSent(k) ==
    /\ LoopIdle
    /\ k.at = "greeting"
    /\ \/ /\ tasks' = Resumed(k)
          /\ ev' = Event(k.user, "welcome_failed", -1, TRUE, 0, 0, 0, TRUE)
       \/ /\ tasks' = Suspend(Resumed(k), [k EXCEPT !.at = "update_last_seen"])
          /\ ev' = NoEvent
    /\ UNCHANGED << now, engine, pending, jobstore, instances, user_states,
                    registry, cfgFile, storage_cache, messages, notes, thr,
                    user_registry, app >>

\* The awaited send of the reply of handler k completes, inside the try of
\* respond_to_user: it raised; or the reply was sent and
\* add_message("assistant", ...) raised; or the reply was sent and logged.
\* The except of respond_to_user logs the exception and raises it again, so
\* that the except of on_user_message awaits the send of the failure notice.
ReplySent(k) ==
    /\ LoopIdle
    /\ k.at = "reply"
    /\ \/ \E o \in {"none", "sent"} :
             /\ tasks' = Suspend(Resumed(k), Task(k.user, "notice", "message",
                                                  k.greeted, o))
             /\ ev' = Event(k.user, "notice", -1, TRUE, 0,
                            Sent(k.greeted) + (IF o = "sent" THEN 1 ELSE 0), 1,
                            FALSE)
             /\ UNCHANGED messages
       \/ /\ Len(messages[k.user]) < MaxHistory
          /\ tasks' = Resumed(k)
          /\ messages' = [messages EXCEPT
                             ![k.user] = Append(@, Message("assistant"))]
          /\ ev' = Event(k.user, "msg_replied", -1, TRUE, 0,
                         Sent(k.greeted) + 1, 2, FALSE)
    /\ UNCHANGED << now, engine, pending, jobstore, instances, user_states,
                    registry, cfgFile, storage_cache, notes, thr,
                    user_registry, app >>

\* The awaited send of the failure notice of handler k completes: the notice
\* was sent, or the send raised and `except: pass` swallows it.
NoticeSent(k) ==
    LET sends == Sent(k.greeted) + (IF k.op = "sent" THEN 1 ELSE 0)
    IN
    /\ LoopIdle
    /\ k.at = "notice"
    /\ tasks' = Resumed(k)
    /\ \/ ev' = Event(k.user, "msg_noticed", -1, TRUE, 0, sends + 1, 1, FALSE)
       \/ ev' = Event(k.user, "msg_unnoticed", -1, TRUE, 0, sends, 1, FALSE)
    /\ UNCHANGED << now, engine, pending, jobstore, instances, user_states,
                    registry, cfgFile, storage_cache, messages, notes, thr,
                    user_registry, app >>

\* The events of "...heartbeat test": an exception left the handler
\* ("test_failed"), or the debug run ended with the error of the API call
\* ("test_error"), with silence ("test_silent") or with a message chosen
\* ("test_message").  In ev, flag is the user's enabled flag, calls the
\* process_heartbeat invocations, sends every message sent to the user so
\* far and writes the appends to the message log; escaped tells that an
\* exception left the handler.
\*
\* The awaited send of the notice of the debug run of handler k completes:
\* it raised; or get_user_storage, get_config, process_heartbeat(debug=True)
\* with its synchronous API call of d minutes, and the handler awaits the
\* send of the debug report.  An exception of one of the calls leaves the
\* handler.
TestNoticeSent(k) ==
    LET u == k.user
        sends == Sent(k.greeted) + 1
    IN
    /\ LoopIdle
    /\ k.at = "test_notice"
    /\ \/ \* the send of the notice raises
          /\ tasks' = Resumed(k)
          /\ ev' = Event(u, "test_failed", -1, is_enabled(u), 0,
                         Sent(k.greeted), 0, TRUE)
          /\ UNCHANGED << now, storage_cache, messages >>
       \/ \* get_user_storage raises
          /\ ~get_user_storage_ok(u)
          /\ tasks' = Resumed(k)
          /\ ev' = Event(u, "test_failed", -1, is_enabled(u), 0, sends, 0, TRUE)
          /\ UNCHANGED << now, storage_cache, messages >>
       \/ \* get_config raises
          /\ get_user_storage_ok(u) /\ ~get_config_ok(u)
          /\ storage_cache' = CacheWith(u)
          /\ tasks' = Resumed(k)
          /\ ev' = Event(u, "test_failed", -1, is_enabled(u), 0, sends, 0, TRUE)
          /\ UNCHANGED << now, messages >>
       \/ \* process_heartbeat raises while loading its context
          /\ get_user_storage_ok(u) /\ get_config_ok(u)
          /\ storage_cache' = CacheWith(u)
          /\ tasks' = Resumed(k)
          /\ ev' = Event(u, "test_failed", -1, is_enabled(u), 1, sends, 0, TRUE)
          /\ UNCHANGED << now, messages >>
       \/ \* the API call returns or raises after d minutes
          /\ get_user_storage_ok(u) /\ get_config_ok(u)
          /\ storage_cache' = CacheWith(u)
          /\ \E d \in 0..MaxBlock,
                o \in {"test_error", "test_silent", "test_message"} :
                LET delivered == IF o = "test_message" /\ delivers(TRUE)
                                 THEN 1 ELSE 0
                IN  /\ now + d <= MaxTime
                    /\ Len(messages[u]) + delivered <= MaxLog
                    /\ now' = now + d
                    /\ messages' = IF delivered = 1
                                   THEN [messages EXCEPT
                                           ![u] = Append(@, Message("assistant"))]
                                   ELSE messages
                    /\ tasks' = Suspend(Resumed(k),
                                        Task(u, "report", "test", k.greeted, o))
                    /\ ev' = Event(u, "report", -1, is_enabled(u), 1,
                                   sends + delivered, delivered, FALSE)
    /\ UNCHANGED << engine, pending, jobstore, instances, user_states,
                    registry, cfgFile, notes, thr, user_registry, app >>

\* The awaited send of the debug report of handler k completes: sent, or
\* it raised and the exception leaves the handler.
ReportSent(k) ==
    /\ LoopIdle
    /\ k.at = "report"
    /\ tasks' = Resumed(k)
    /\ \E reported \in BOOLEAN :
          ev' = Event(k.user, k.op, -1, is_enabled(k.user), 1,
                      Sent(k.greeted) + 1 + (IF reported THEN 1 ELSE 0), 0,
                      ~reported)
    /\ UNCHANGED << now, engine, pending, jobstore, instances, user_states,
                    registry, cfgFile, storage_cache, messages, notes, thr,
                    user_registry, app >>

\* The awaited send of the response of the command of handler k completes:
\* sent, or it raised and the exception leaves the handler.  In ev, flag is
\* the value asked for by an on or off command, and the user's flag
\* otherwise.
ResponseSent(k) ==
    /\ LoopIdle
    /\ k.at = "response"
    /\ tasks' = Resumed(k)
    /\ \E reported \in BOOLEAN :
          ev' = Event(k.user, k.op, -1,
                      IF k.text \in {"on", "off"} THEN k.text = "on"
                      ELSE is_enabled(k.user), 0,
                      Sent(k.greeted) + (IF reported THEN 1 ELSE 0), 0,
                      ~reported)
    /\ UNCHANGED << now, engine, pending, jobstore, instances, user_states,
                    registry, cfgFile, storage_cache, messages, notes, thr,
                    user_registry, app >>

\* UserRegistry.deactivate_user: the first record of the id gets the status
\* inactive; an unknown id is logged and nothing is written.
deactivate_user(r, u) ==
    IF u \in RegisteredIds(r)
    THEN [r EXCEPT ![FirstIndex(r, u)].status = "inactive"]
    ELSE r

----------------------------------------------------------------------------
\* The scheduler as a component: its operations called in any order, the
\* timers and the clock.  The registry and the config files are as found at
\* process start.
Next ==
    \/ \E u \in Users, m \in Intervals, e \in BOOLEAN : AddUser(u, m, e)
    \/ \E u \in Users : RemoveUser(u)
    \/ \E u \in Users : PauseUser(u)
    \/ \E u \in Users : ResumeUser(u)
    \/ Start
    \/ Stop
    \/ \E u \in Users : Fire(u)
    \/ \E u \in Users : SendDone(u)
    \/ AdvanceTime

Spec == Init /\ [][Next]_vars

\* The scheduler before its first start(): add_user, remove_user,
\* pause_user and resume_user called on the stopped engine.
UnstartedNext ==
    \/ \E u \in Users, m \in Intervals, e \in BOOLEAN : AddUser(u, m, e)
    \/ \E u \in Users : RemoveUser(u)
    \/ \E u \in Users : PauseUser(u)
    \/ \E u \in Users : ResumeUser(u)

UnstartedSpec == Init /\ [][UnstartedNext]_vars

----------------------------------------------------------------------------
\* The storage layer under callers that may run at the same time.  A caller
\* is idle or between the read() and the write() of a mutating call: each of
\* JSONStorage.read and JSONStorage.write takes the file's lock for itself,
\* and add_message, add_note and update_config call one and then the other.
\* An idle caller keeps what its latest call returned (data, raised).

\* get_user_storage(u) by caller t: under _cache_lock, the cached handle, or
\* a UserStorageManager constructed and cached, or the exception of the
\* construction, which leaves the cache as it was.
GetUserStorage(t, u) ==
    /\ thr[t].pc = "idle"
    /\ storage_cache' = IF get_user_storage_ok(u) THEN CacheWith(u)
                        ELSE storage_cache
    /\ thr' = [thr EXCEPT ![t] = [Idle EXCEPT !.user = u,
                                   !.raised = ~get_user_storage_ok(u)]]
    /\ UNCHANGED << messages, notes, cfgFile >>
    /\ UNCHANGED schedVars
    /\ UNCHANGED << user_registry, tasks, app >>

\* add_message(role, content) on u's handle, first half: data = self.read().
AddMessageRead(t, u, role) ==
    /\ thr[t].pc = "idle"
    /\ u \in storage_cache
    /\ Len(messages[u]) < MaxLog
    /\ thr' = [thr EXCEPT ![t] = [Idle EXCEPT !.pc = "add_message", !.user = u,
                                   !.data = messages[u],
                                   !.entry = Message(role)]]
    /\ UNCHANGED << storage_cache, messages, notes, cfgFile >>
    /\ UNCHANGED schedVars
    /\ UNCHANGED << user_registry, tasks, app >>

\* add_message, second half: the entry appended to the data read, and
\* self.write(data).
AddMessageWrite(t) ==
    /\ thr[t].pc = "add_message"
    /\ messages' = [messages EXCEPT ![thr[t].user] =
                        Append(thr[t].data, thr[t].entry)]
    /\ thr' = [thr EXCEPT ![t] = Idle]
    /\ UNCHANGED << storage_cache, notes, cfgFile >>
    /\ UNCHANGED schedVars
    /\ UNCHANGED << user_registry, tasks, app >>

\* add_note(note), first half: data = self.read().
AddNoteRead(t, u) ==
    /\ thr[t].pc = "idle"
    /\ u \in storage_cache
    /\ Len(notes[u]) < MaxLog
    /\ thr' = [thr EXCEPT ![t] = [Idle EXCEPT !.pc = "add_note", !.user = u,
                                   !.data = notes[u]]]
    /\ UNCHANGED << storage_cache, messages, notes, cfgFile >>
    /\ UNCHANGED schedVars
    /\ UNCHANGED << user_registry, tasks, app >>

\* add_note, second half: the note appended to the data read, and
\* self.write(data).
AddNoteWrite(t) ==
    /\ thr[t].pc = "add_note"
    /\ notes' = [notes EXCEPT ![thr[t].user] = Append(thr[t].data, [note |-> "n"])]
    /\ thr' = [thr EXCEPT ![t] = Idle]
    /\ UNCHANGED << storage_cache, messages, cfgFile >>
    /\ UNCHANGED schedVars
    /\ UNCHANGED << user_registry, tasks, app >>

\* update_config(**kwargs) on u's handle by caller t, first half:
\* data = self.read(), which raises on a file that is not JSON.
UpdateConfigRead(t, u, kwargs) ==
    /\ thr[t].pc = "idle"
    /\ u \in storage_cache
    /\ thr' = [thr EXCEPT ![t] =
                  IF get_config_ok(u)
                  THEN [Idle EXCEPT !.pc = "update_config", !.user = u,
                                    !.config = cfgFile[u], !.kwargs = kwargs]
                  ELSE [Idle EXCEPT !.user = u, !.kwargs = kwargs,
                                    !.config = cfgFile[u], !.raised = TRUE]]
    /\ UNCHANGED << storage_cache, messages, notes, cfgFile >>
    /\ UNCHANGED schedVars
    /\ UNCHANGED << user_registry, tasks, app >>

\* update_config, between its read and its write: the given keys set in the
\* data read, and updated_at set to the time of this statement.  The caller
\* holds no lock here.
UpdateConfigStamp(t) ==
    /\ thr[t].pc = "update_config"
    /\ thr' = [thr EXCEPT ![t] =
                  [@ EXCEPT !.pc = "update_config_write",
                            !.data = update_config(thr[t].config,
                                                   thr[t].kwargs, now)]]
    /\ UNCHANGED << storage_cache, messages, notes, cfgFile >>
    /\ UNCHANGED schedVars
    /\ UNCHANGED << user_registry, tasks, app >>

\* update_config, last part: self.write(data) of the dict as it was stamped.
\* The caller keeps the arguments of the call it returned from, the data it
\* read and the data it wrote.
UpdateConfigWrite(t) ==
    /\ thr[t].pc = "update_config_write"
    /\ cfgFile' = [cfgFile EXCEPT ![thr[t].user] = thr[t].data]
    /\ thr' = [thr EXCEPT ![t] = [Idle EXCEPT !.user = thr[t].user,
                                               !.kwargs = thr[t].kwargs,
                                               !.config = thr[t].config,
                                               !.data = thr[t].data]]
    /\ UNCHANGED << storage_cache, messages, notes >>
    /\ UNCHANGED schedVars
    /\ UNCHANGED << user_registry, tasks, app >>

\* get_recent_messages(limit): `if limit: return messages[-limit:]` (the
\* last `limit` entries, all of them when the list is shorter), else all of
\* them; None and 0 are both false.
get_recent_messages(log, limit) ==
    IF limit # NoLimit /\ limit # 0
    THEN SubSeq(log, IF limit >= Len(log) THEN 1 ELSE Len(log) - limit + 1,
                Len(log))
    ELSE log

\* get_notes(): all the notes of the file.
get_notes(log) == log

\* get_recent_messages(limit) on u's handle by caller t.
GetRecentMessages(t, u, limit) ==
    /\ thr[t].pc = "idle"
    /\ u \in storage_cache
    /\ thr' = [thr EXCEPT ![t] = [Idle EXCEPT !.user = u, !.limit = limit,
                  !.data = get_recent_messages(messages[u], limit)]]
    /\ UNCHANGED << storage_cache, messages, notes, cfgFile >>
    /\ UNCHANGED schedVars
    /\ UNCHANGED << user_registry, tasks, app >>

\* clear_messages() on u's handle: self.write({"messages": []}).
ClearMessages(t, u) ==
    /\ thr[t].pc = "idle"
    /\ u \in storage_cache
    /\ messages' = [messages EXCEPT ![u] = << >>]
    /\ thr' = [thr EXCEPT ![t] = Idle]
    /\ UNCHANGED << storage_cache, notes, cfgFile >>
    /\ UNCHANGED schedVars
    /\ UNCHANGED << user_registry, tasks, app >>

\* clear_notes() on u's handle: self.write({"notes": []}).
ClearNotes(t, u) ==
    /\ thr[t].pc = "idle"
    /\ u \in storage_cache
    /\ notes' = [notes EXCEPT ![u] = << >>]
    /\ thr' = [thr EXCEPT ![t] = Idle]
    /\ UNCHANGED << storage_cache, messages, cfgFile >>
    /\ UNCHANGED schedVars
    /\ UNCHANGED << user_registry, tasks, app >>

\* The limits get_recent_messages is called with.
Limits == {NoLimit} \cup 0..(MaxLog + 1)

\* The storage layer taken alone, in a process where the startup user has
\* whatever config file and every other user has never been seen.
StorageInit ==
    /\ now = 0
    /\ engine = "stopped"
    /\ pending = << >>
    /\ jobstore = {}
    /\ instances = [u \in Users |-> 0]
    /\ user_states = [u \in {} |-> TRUE]
    /\ registry = << >>
    /\ cfgFile \in StartupCfgFiles
    /\ StoreInit
    /\ app = "main"
    /\ ev = NoEvent

StorageNext ==
    \/ \E t \in Threads, u \in Users : GetUserStorage(t, u)
    \/ \E t \in Threads, u \in Users, role \in {"user", "assistant"} :
          AddMessageRead(t, u, role)
    \/ \E t \in Threads : AddMessageWrite(t)
    \/ \E t \in Threads, u \in Users : AddNoteRead(t, u)
    \/ \E t \in Threads : AddNoteWrite(t)
    \/ \E t \in Threads, u \in Users,
          kwargs \in { "heartbeat_enabled" :> e : e \in BOOLEAN }
                     \cup { "heartbeat_interval_minutes" :> m : m \in Intervals } :
          UpdateConfigRead(t, u, kwargs)
    \/ \E t \in Threads : UpdateConfigStamp(t)
    \/ \E t \in Threads : UpdateConfigWrite(t)
    \/ \E t \in Threads, u \in Users, limit \in Limits :
          GetRecentMessages(t, u, limit)
    \/ \E t \in Threads, u \in Users : ClearMessages(t, u)
    \/ \E t \in Threads, u \in Users : ClearNotes(t, u)

StorageSpec == StorageInit /\ [][StorageNext]_vars

----------------------------------------------------------------------------
\* The config store of a user under one caller: calls made one after the
\* other, each from its read to its write, while the clock runs.

\* The keyword arguments update_config is called with: one key, or two
\* different keys, with the values per key: the fields of the config, the
\* two protected keys, and a key that is no field of the config.  An
\* interval may be any integer.
Kwargs ==
    LET KwargPairs ==
            ({"model"} \X {"m1", "m2"})
            \cup ({"heartbeat_enabled"} \X BOOLEAN)
            \cup ({"heartbeat_interval_minutes"} \X (-1..MaxInterval))
            \cup ({"user_id"} \X {"other"})
            \cup ({"created_at"} \X {MaxTime + 1})
            \cup ({"timezone"} \X {"utc"})
    IN  { p[1] :> p[2] : p \in KwargPairs }
        \cup UNION { { (p[1] :> p[2]) @@ (q[1] :> q[2]) :
                          q \in { r \in KwargPairs : r[1] # p[1] } } :
                      p \in KwargPairs }

\* Faulty variant: reset_to_defaults writes a fresh default record, which
\* it would do if building the defaults did not raise.
ResetToDefaultsWrites(t, u) ==
    /\ thr[t].pc = "idle"
    /\ u \in storage_cache
    /\ cfgFile' = [cfgFile EXCEPT ![u] = [Config(TRUE, 1) EXCEPT
                                             !.created_at = now,
                                             !.updated_at = now]]
    /\ thr' = [thr EXCEPT ![t] = [Idle EXCEPT !.user = u]]
    /\ UNCHANGED << storage_cache, messages, notes >>
    /\ UNCHANGED schedVars
    /\ UNCHANGED << user_registry, tasks, app >>

\* reset_to_defaults() on u's handle: self.write(self._get_empty_structure()),
\* where building the default record calls config.get_claude_model(), which
\* src/src/config.py does not define: the call raises before it writes.
ResetToDefaults(t, u) ==
    /\ thr[t].pc = "idle"
    /\ u \in storage_cache
    /\ thr' = [thr EXCEPT ![t] = [Idle EXCEPT !.user = u, !.raised = TRUE]]
    /\ UNCHANGED << storage_cache, messages, notes, cfgFile >>
    /\ UNCHANGED schedVars
    /\ UNCHANGED << user_registry, tasks, app >>

\* The caller of the config store.
ConfigCallers == {"t1"}

ConfigNext ==
    \/ \E t \in ConfigCallers, u \in Users : GetUserStorage(t, u)
    \/ \E t \in ConfigCallers, u \in Users, kwargs \in Kwargs :
          UpdateConfigRead(t, u, kwargs)
    \/ \E t \in ConfigCallers : UpdateConfigStamp(t)
    \/ \E t \in ConfigCallers : UpdateConfigWrite(t)
    \/ \E t \in ConfigCallers, u \in Users : ResetToDefaults(t, u)
    \/ AdvanceTime

ConfigSpec == StorageInit /\ [][ConfigNext]_vars

----------------------------------------------------------------------------
\* The registry under its callers.  register_user, update_last_seen and
\* deactivate_user each call self.read(), change the dict they read and call
\* self.write(data); a call that finds nothing to change returns after its
\* read.  A caller between the two holds the dict it is going to write.  An
\* idle caller keeps the record its register_user returned.

\* register_user(u, ...) by caller t, up to its return or its write.
RegisterUserRead(t, u) ==
    /\ thr[t].pc = "idle"
    /\ LET data == register_user(registry, u) IN
       thr' = [thr EXCEPT ![t] =
                  IF Len(data) = Len(registry)
                  THEN [Idle EXCEPT !.user = u,
                                    !.data = << data[FirstIndex(data, u)] >>]
                  ELSE [Idle EXCEPT !.pc = "register_user", !.user = u,
                                    !.data = data]]
    /\ UNCHANGED << registry, now, cfgFile, storage_cache, messages, notes >>
    /\ UNCHANGED << engine, pending, jobstore, instances, user_states, ev >>
    /\ UNCHANGED << user_registry, tasks, app >>

\* update_last_seen(u) by caller t, up to its return or its write.
UpdateLastSeenRead(t, u) ==
    /\ thr[t].pc = "idle"
    /\ LET data == update_last_seen(registry, u) IN
       thr' = [thr EXCEPT ![t] =
                  IF u \in RegisteredIds(data)
                  THEN [Idle EXCEPT !.pc = "update_last_seen", !.user = u,
                                    !.data = data]
                  ELSE [Idle EXCEPT !.user = u]]
    /\ UNCHANGED << registry, now, cfgFile, storage_cache, messages, notes >>
    /\ UNCHANGED << engine, pending, jobstore, instances, user_states, ev >>
    /\ UNCHANGED << user_registry, tasks, app >>

\* deactivate_user(u) by caller t, up to its return or its write.
DeactivateUserRead(t, u) ==
    /\ thr[t].pc = "idle"
    /\ LET data == deactivate_user(registry, u) IN
       thr' = [thr EXCEPT ![t] =
                  IF u \in RegisteredIds(data)
                  THEN [Idle EXCEPT !.pc = "deactivate_user", !.user = u,
                                    !.data = data]
                  ELSE [Idle EXCEPT !.user = u]]
    /\ UNCHANGED << registry, now, cfgFile, storage_cache, messages, notes >>
    /\ UNCHANGED << engine, pending, jobstore, instances, user_states, ev >>
    /\ UNCHANGED << user_registry, tasks, app >>


\* Faulty variant: the write of register_user adds its record to the file
\* as it is now.
MergedData(t) ==
    IF thr[t].pc = "register_user"
    THEN Append(registry, thr[t].data[Len(thr[t].data)])
    ELSE thr[t].data

\* What self.write(data) of caller t puts in the file: the dict t read, as
\* t changed it.
WrittenData(t) == thr[t].data

\* Faulty variant: the write of deactivate_user also removes the user from
\* the scheduler.
RegistryWriteAndRemove(t) ==
    /\ thr[t].pc \in {"register_user", "update_last_seen", "deactivate_user"}
    /\ registry' = WrittenData(t)
    /\ jobstore' = IF thr[t].pc = "deactivate_user"
                   THEN { j \in jobstore : j.id # thr[t].user }
                   ELSE jobstore
    /\ user_states' = IF thr[t].pc = "deactivate_user"
                      THEN [x \in DOMAIN user_states \ {thr[t].user}
                               |-> user_states[x]]
                      ELSE user_states
    /\ thr' = [thr EXCEPT ![t] = [Idle EXCEPT !.user = thr[t].user]]
    /\ UNCHANGED << now, cfgFile, storage_cache, messages, notes >>
    /\ UNCHANGED << engine, pending, instances, ev >>
    /\ UNCHANGED << user_registry, tasks, app >>

\* self.write(data) of the registry call caller t is in, and its return.
RegistryWrite(t) ==
    /\ thr[t].pc \in {"register_user", "update_last_seen", "deactivate_user"}
    /\ registry' = WrittenData(t)
    /\ thr' = [thr EXCEPT ![t] =
                  [Idle EXCEPT !.user = thr[t].user,
                               !.data = IF thr[t].pc = "register_user"
                                        THEN << thr[t].data[Len(thr[t].data)] >>
                                        ELSE << >>]]
    /\ UNCHANGED << now, cfgFile, storage_cache, messages, notes >>
    /\ UNCHANGED << engine, pending, jobstore, instances, user_states, ev >>
    /\ UNCHANGED << user_registry, tasks, app >>

\* A fresh process with any registry file of the startup statuses.
RegistryInit ==
    /\ now = 0
    /\ engine = "stopped"
    /\ pending = << >>
    /\ jobstore = {}
    /\ instances = [u \in Users |-> 0]
    /\ user_states = [u \in {} |-> TRUE]
    /\ registry \in RegistryFiles(Users, StartupStatuses)
    /\ cfgFile = [u \in Users |-> NoConfig("missing")]
    /\ StoreInit
    /\ app = "main"
    /\ ev = NoEvent

\* The registry under callers that may run at the same time: calls that
\* overlap within one minute of the clock (the calls made one after the
\* other as time passes are those of RegistryCallSpec).
RegistryNext ==
    \/ \E t \in Threads, u \in Users : RegisterUserRead(t, u)
    \/ \E t \in Threads, u \in Users : UpdateLastSeenRead(t, u)
    \/ \E t \in Threads, u \in Users : DeactivateUserRead(t, u)
    \/ \E t \in Threads : RegistryWrite(t)

RegistrySpec == RegistryInit /\ [][RegistryNext]_vars

\* The registry under one caller: whole calls, one after the other.
RegistryCallers == {"t1"}

RegistryCallNext ==
    \/ \E t \in RegistryCallers, u \in Users : RegisterUserRead(t, u)
    \/ \E t \in RegistryCallers, u \in Users : UpdateLastSeenRead(t, u)
    \/ \E t \in RegistryCallers, u \in Users : DeactivateUserRead(t, u)
    \/ \E t \in RegistryCallers : RegistryWrite(t)
    \/ AdvanceTime

RegistryCallSpec == RegistryInit /\ [][RegistryCallNext]_vars

----------------------------------------------------------------------------
\* The "...heartbeat" commands.  A command is a text message: handle_message
\* registers and greets an unknown sender and updates last_seen as for any
\* message, then calls handle_command and returns without logging the text
\* and without calling on_user_message.  An exception raised in the command
\* leaves handle_message.

\* A fresh process whose registry is empty or holds the startup user, with
\* the config files of StartupCfgFiles.  The program started with
\* `python main.py` runs as the module __main__; `from main import
\* DaemonVigil` in handle_heartbeat then imports main.py a second time, and
\* the class of that copy has _instance None.  A program that imports main
\* and runs main.main() gives the commands the application.
AppInit ==
    /\ now = 0
    /\ engine = "stopped"
    /\ pending = << >>
    /\ jobstore = {}
    /\ instances = [u \in Users |-> 0]
    /\ user_states = [u \in {} |-> TRUE]
    /\ registry \in RegistryFiles(StartupUsers, StartupStatuses)
    /\ cfgFile \in StartupCfgFiles
    /\ StoreInit
    /\ app \in {"none", "main"}
    /\ ev = NoEvent

\* The process in which DaemonVigil.get_instance() gives the commands the
\* application.
InstanceInit == AppInit /\ app = "main"

\* The application around the scheduler: start() and stop(), the text
\* messages of the startup user, whose handlers run on the event loop, a
\* caller outside the loop in deactivate_user, the timers and the clock.
IngressNext ==
    \/ Start
    \/ Stop
    \/ \E u \in StartupUsers : HandleMessage(u)
    \/ \E k \in BagToSet(tasks) : HandlerRead(k)
    \/ \E k \in BagToSet(tasks) : HandlerWrite(k)
    \/ \E k \in BagToSet(tasks) : WelcomeSent(k)
    \/ \E k \in BagToSet(tasks) : ReplySent(k)
    \/ \E k \in BagToSet(tasks) : NoticeSent(k)
    \/ \E t \in RegistryCallers, u \in StartupUsers : DeactivateUserRead(t, u)
    \/ \E t \in RegistryCallers : RegistryWrite(t)
    \/ \E u \in Users : Fire(u)
    \/ \E u \in Users : SendDone(u)
    \/ AdvanceTime

IngressSpec == InstanceInit /\ [][IngressNext]_vars

\* The scheduler with its timers, and the debug command, for the startup
\* user.
DebugNext ==
    \/ \E u \in StartupUsers, m \in Intervals, e \in BOOLEAN : AddUser(u, m, e)
    \/ Start
    \/ \E u \in StartupUsers : HeartbeatTest(u)
    \/ \E k \in BagToSet(tasks) : HandlerRead(k)
    \/ \E k \in BagToSet(tasks) : HandlerWrite(k)
    \/ \E k \in BagToSet(tasks) : WelcomeSent(k)
    \/ \E k \in BagToSet(tasks) : TestNoticeSent(k)
    \/ \E k \in BagToSet(tasks) : ReportSent(k)
    \/ \E u \in Users : Fire(u)
    \/ \E u \in Users : SendDone(u)
    \/ AdvanceTime

DebugSpec == InstanceInit /\ [][DebugNext]_vars

\* The application with its commands other than the debug run: start(),
\* stop(), the commands of the startup user, the clock.
CommandNext ==
    \/ Start
    \/ Stop
    \/ \E u \in StartupUsers, e \in BOOLEAN : HeartbeatSwitch(u, e)
    \/ \E k \in BagToSet(tasks) : HandlerRead(k)
    \/ \E k \in BagToSet(tasks) : HandlerWrite(k)
    \/ \E k \in BagToSet(tasks) : WelcomeSent(k)
    \/ \E k \in BagToSet(tasks) : ResponseSent(k)
    \/ AdvanceTime

CommandSpec == AppInit /\ [][CommandNext]_vars

\* The application with the commands of Commands: add_user before and after
\* start(), and the commands of the startup user.
OtherCommandsNext ==
    \/ \E u \in StartupUsers, m \in Intervals, e \in BOOLEAN : AddUser(u, m, e)
    \/ Start
    \/ \E u \in StartupUsers, c \in Commands : handle_message(u, c)
    \/ \E k \in BagToSet(tasks) : HandlerRead(k)
    \/ \E k \in BagToSet(tasks) : HandlerWrite(k)
    \/ \E k \in BagToSet(tasks) : WelcomeSent(k)
    \/ \E k \in BagToSet(tasks) : ResponseSent(k)

OtherCommandsSpec == AppInit /\ [][OtherCommandsNext]_vars

----------------------------------------------------------------------------
\* The locks.  The scheduler has one threading.Lock over its flag map, the
\* storage module one over its handle cache, and every JSONStorage object one
\* of its own that it takes for each single read or write of its file.  To
\* see which lock is held during which statement, the callers t1 and t2 run
\* the operations below one statement at a time: thr[t].pc is the operation,
\* thr[t].step the statement it is at, thr[t].locks the locks it holds.

\* A lock: kind names the lock or the file of the JSONStorage object it
\* belongs to, user the owner of that object (for users.json: the
\* UserRegistry instance).
Lock(kind, u) == [kind |-> kind, user |-> u]
CacheLock == Lock("_cache_lock", "none")
StateLock == Lock("state_lock", "none")
FileLock(u, f) == Lock(f, u)
RegistryLock(inst) == Lock("users.json", inst)

\* A statement: entering a `with lock:` block, leaving it, or anything else.
Acq(l) == [do |-> "acquire", lock |-> l, act |-> "none"]
Rel(l) == [do |-> "release", lock |-> l, act |-> "none"]
Act(a) == [do |-> "act", lock |-> Lock("none", "none"), act |-> a]

\* JSONStorage.read / JSONStorage.write: `with self.lock:` around the file
\* access a.
Locked(l, a) == << Acq(l), Act(a), Rel(l) >>

\* JSONStorage.__init__ -> _ensure_file_exists: the existence test outside the
\* lock, the write of the empty structure inside it.
ensure_file_exists(l) == << Act("exists") >> \o Locked(l, "write_text")

\* get_user_storage: lookup, construction and insertion all inside
\* `with _cache_lock:`.  UserStorageManager.__init__ makes the directory,
\* then the three stores.  (The stores are new objects, so their locks are
\* uncontended; they are named like the locks of the cached handle of the
\* same user, which cannot exist while the constructor runs.)
get_user_storage_steps(u) ==
    << Acq(CacheLock), Act("lookup"), Act("mkdir") >>
    \o ensure_file_exists(FileLock(u, "messages.json"))
    \o ensure_file_exists(FileLock(u, "scratchpad.json"))
    \o ensure_file_exists(FileLock(u, "user_config.json"))
    \o << Act("insert"), Rel(CacheLock) >>

\* UserConfigStorage.get_config, MessageStorage.add_message.
get_config_steps(u) == Locked(FileLock(u, "user_config.json"), "read_config")
add_message_steps(u) ==
    Locked(FileLock(u, "messages.json"), "read_messages")
    \o Locked(FileLock(u, "messages.json"), "write_messages")

\* get_user_registry: no lock at all.
get_user_registry_steps(inst) ==
    << Act("is_none"), Act("UserRegistry") >>
    \o ensure_file_exists(RegistryLock(inst))
    \o << Act("assign"), Act("return") >>

\* get_user_registry().update_last_seen(u): a locked read, the search, a
\* locked write.  The write opens the file with mode 'w', which empties it,
\* and then dumps the data.  (Two UserRegistry objects have two locks for
\* the one file; every other file has one JSONStorage object at a time, whose
\* lock is held by whoever reads or writes it.)
update_last_seen_steps(inst) ==
    get_user_registry_steps(inst)
    \o Locked(RegistryLock(inst), "read_registry")
    \o << Act("found") >>
    \o << Acq(RegistryLock(inst)), Act("truncate_registry"),
          Act("write_registry"), Rel(RegistryLock(inst)) >>

\* is_enabled, pause_user / resume_user.
is_enabled_steps == Locked(StateLock, "get_flag")
set_flag_steps == Locked(StateLock, "set_flag")

\* Faulty variant: add_user that takes state_lock around the whole body.
add_user_locked ==
    << Acq(StateLock), Act("add_job"), Act("set_flag"), Rel(StateLock),
       Act("get_job") >>

\* add_user: add_job, the locked flag update, get_job.
add_user_steps ==
    << Act("add_job") >> \o Locked(StateLock, "set_flag") \o << Act("get_job") >>

\* claude.process_heartbeat(debug=False): load the context
\* (get_recent_messages, get_notes), call the API, append the usage record
\* to api_usage.jsonl (no lock), then for every send_message block of the
\* response send it and log it ("for_block" is the loop entered,
\* "next_block" the loop going on to the block after this one).
process_heartbeat_steps(u) ==
    Locked(FileLock(u, "messages.json"), "read_messages")
    \o Locked(FileLock(u, "scratchpad.json"), "read_notes")
    \o << Act("messages.create"), Act("log_api_usage"), Act("for_block"),
          Act("send_message") >>
    \o add_message_steps(u)
    \o << Act("next_block") >>

\* heartbeat_job
heartbeat_job_steps(u) ==
    is_enabled_steps \o << Act("enabled") >> \o get_user_storage_steps(u)
    \o get_config_steps(u) \o process_heartbeat_steps(u)

LockOps == {"get_user_storage", "get_config", "add_message",
            "get_user_registry", "update_last_seen", "is_enabled",
            "pause_user", "resume_user", "add_user", "remove_user",
            "heartbeat_job"}

\* The statements of every operation, by operation, user and UserRegistry
\* instance.
StepTable ==
    [op \in LockOps |->
        [u \in Users \cup {"none"} |->
            [inst \in Threads \cup {"none", "main"} |->
                CASE op = "get_user_storage"  -> get_user_storage_steps(u)
                  [] op = "get_config"        -> get_config_steps(u)
                  [] op = "add_message"       -> add_message_steps(u)
                  [] op = "get_user_registry" -> get_user_registry_steps(inst)
                  [] op = "update_last_seen"  -> update_last_seen_steps(inst)
                  [] op = "is_enabled"        -> is_enabled_steps
                  [] op = "pause_user"        -> set_flag_steps
                  [] op = "resume_user"       -> set_flag_steps
                  [] op = "add_user"          -> add_user_steps
                  [] op = "remove_user"       ->
                         << Act("job_exists"), Act("remove_job") >>
                         \o Locked(StateLock, "pop_flag")
                  [] op = "heartbeat_job"     -> heartbeat_job_steps(u)]]]

\* The statements of the operation that caller record s is in.
Steps(s) ==
    IF s.pc \in LockOps THEN StepTable[s.pc][s.user][s.instance] ELSE << >>

\* The statement caller t is at.
Current(t) ==
    IF thr[t].step \in DOMAIN Steps(thr[t]) THEN Steps(thr[t])[thr[t].step]
    ELSE Act("none")

\* The statements that access a file or directory.
FileActs == {"mkdir", "exists", "write_text", "read_config", "read_messages",
             "read_notes", "write_messages", "read_registry",
             "truncate_registry", "write_registry", "log_api_usage"}

\* Caller t is in file I/O.
DoingIO(t) == Current(t).do = "act" /\ Current(t).act \in FileActs

\* Caller t is at a `with lock:` whose lock another caller holds.
Waiting(t) ==
    /\ Current(t).do = "acquire"
    /\ \E o \in Threads \ {t} : Current(t).lock \in thr[o].locks

\* The first position after i of statement ins.
NextIndex(prog, i, ins) ==
    CHOOSE j \in (i + 1)..Len(prog) :
        /\ prog[j] = ins
        /\ \A k \in (i + 1)..(j - 1) : prog[k] # ins

\* Faulty variant: an exception leaves the `with` blocks without releasing.
KeptOnRaise(held) == held

\* An exception propagates out of every enclosing `with lock:` block, each of
\* which releases its lock.
ReleasedOnRaise(held) == {}

\* The caller goes on at statement j, or has returned when the operation has
\* no such statement.
Continue(s, j) ==
    IF j \in DOMAIN Steps(s) THEN [s EXCEPT !.step = j]
    ELSE [Idle EXCEPT !.locks = s.locks]

\* The operation ends with an exception (heartbeat_job catches and logs it).
Raise(s) == [Idle EXCEPT !.locks = ReleasedOnRaise(s.locks)]

lockFrame == << now, engine, instances, cfgFile, notes, tasks, app >>

\* The entries that caller t may still add to the log of u within MaxLog:
\* the other callers that are in add_message, and the send_message blocks
\* their ticks have still to go through, count as added.
Room(t, u) ==
    LET Reserved(o) ==
            IF thr[o].user # u THEN 0
            ELSE IF thr[o].pc = "add_message" THEN 1
            ELSE IF thr[o].pc = "heartbeat_job" THEN thr[o].blocks
            ELSE 0
        RECURSIVE Sum(_)
        Sum(T) == IF T = {} THEN 0
                  ELSE LET o == CHOOSE x \in T : TRUE
                       IN  Reserved(o) + Sum(T \ {o})
    IN  MaxLog - Len(messages[u]) - Sum(Threads \ {t})

\* Caller t enters operation op for user u; add_user gets the flag e and its
\* default interval.  The entries other callers are about to append to the
\* log of u, and the callers about to add a tentative job, count towards the
\* bounds.
Call(t, op, u, e) ==
    /\ thr[t].pc = "idle"
    /\ op \in {"get_config", "add_message"} => u \in storage_cache
    /\ op = "add_message" => Room(t, u) > 0
    /\ op = "heartbeat_job" => (engine = "running" /\ job_exists(u))
    /\ op = "add_user" =>
           LET Adders == { o \in Threads :
                             thr[o].pc = "add_user" /\ thr[o].step = 1 }
           IN  engine = "stopped" =>
                   Len(pending) + Cardinality(Adders) < MaxPending
    /\ thr' = [thr EXCEPT ![t] =
                 [Idle EXCEPT !.pc = op,
                              !.user = IF op = "get_user_registry" THEN "none"
                                       ELSE u,
                              !.enabled = IF op = "pause_user" THEN FALSE
                                          ELSE IF op = "add_user" THEN e
                                          ELSE TRUE,
                              !.entry = Message("assistant"),
                              !.step = 1,
                              !.locks = thr[t].locks]]
    /\ ev' = NoEvent
    /\ UNCHANGED << pending, jobstore, user_states, registry, storage_cache,
                    messages, user_registry >>
    /\ UNCHANGED lockFrame

\* threading.Lock.acquire: caller t enters the `with` block once no caller
\* holds the lock; until then it waits.
Acquire(t) ==
    /\ Current(t).do = "acquire"
    /\ \A o \in Threads : Current(t).lock \notin thr[o].locks
    /\ thr' = [thr EXCEPT ![t] =
                 Continue([thr[t] EXCEPT !.locks = @ \cup {Current(t).lock}],
                          thr[t].step + 1)]
    /\ ev' = NoEvent
    /\ UNCHANGED << pending, jobstore, user_states, registry, storage_cache,
                    messages, user_registry >>
    /\ UNCHANGED lockFrame

\* Caller t leaves the `with` block.
Release(t) ==
    /\ Current(t).do = "release"
    /\ thr' = [thr EXCEPT ![t] =
                 Continue([thr[t] EXCEPT !.locks = @ \ {Current(t).lock}],
                          thr[t].step + 1)]
    /\ ev' = NoEvent
    /\ UNCHANGED << pending, jobstore, user_states, registry, storage_cache,
                    messages, user_registry >>
    /\ UNCHANGED lockFrame

\* What the statement that caller t is at does; c decides what the
\* environment decides (whether a log file is there, whether the API call,
\* the append to the usage file and the send went through), n how many
\* send_message blocks the response of the API call holds.  An exception
\* inside process_heartbeat is caught there (claude.py 194) and the tick
\* returns.
Outcome(t, c, n) ==
    LET s    == thr[t]
        prog == Steps(s)
        i    == s.step
        u    == s.user
        a    == prog[i].act
        same == [thread |-> Continue(s, i + 1), pending |-> pending,
                 jobstore |-> jobstore, user_states |-> user_states,
                 registry |-> registry, storage_cache |-> storage_cache,
                 messages |-> messages, user_registry |-> user_registry]
        return == Len(prog) + 1
    IN  CASE a = "lookup" ->
               [same EXCEPT !.thread =
                   IF u \in storage_cache
                   THEN Continue(s, NextIndex(prog, i, Rel(CacheLock)))
                   ELSE Continue(s, i + 1)]
          [] a = "exists" ->
               LET f     == prog[i + 1].lock.kind
                   there == IF f = "user_config.json"
                            THEN cfgFile[u].state # "missing"
                            ELSE IF f = "users.json" /\ registry # << >>
                            THEN TRUE
                            ELSE c
               IN  [same EXCEPT !.thread =
                       Continue(s, IF there THEN i + 4 ELSE i + 1)]
          [] a = "write_text" ->
               [same EXCEPT
                   !.thread =
                       IF prog[i - 1].lock.kind = "user_config.json"
                       THEN Raise(s) ELSE Continue(s, i + 1),
                   !.registry =
                       IF prog[i - 1].lock.kind = "users.json"
                       THEN << >> ELSE registry]
          [] a = "insert" ->
               [same EXCEPT !.storage_cache = CacheWith(u)]
          [] a = "read_config" ->
               [same EXCEPT !.thread =
                   IF get_config_ok(u) THEN Continue(s, i + 1) ELSE Raise(s)]
          [] a = "read_messages" ->
               [same EXCEPT !.thread =
                   Continue([s EXCEPT !.data = messages[u]], i + 1)]
          [] a = "write_messages" ->
               [same EXCEPT !.messages =
                   [messages EXCEPT ![u] = Append(s.data, s.entry)]]
          [] a = "messages.create" ->
               [same EXCEPT !.thread =
                   IF c
                   THEN Continue([s EXCEPT !.blocks =
                                     IF n <= Room(t, u) THEN n
                                     ELSE IF Room(t, u) > 0 THEN Room(t, u)
                                     ELSE 0], i + 1)
                   ELSE Continue(s, return)]
          [] a = "log_api_usage" ->
               [same EXCEPT !.thread =
                   IF c THEN Continue(s, i + 1) ELSE Continue(s, return)]
          [] a = "for_block" ->
               [same EXCEPT !.thread =
                   IF s.blocks > 0 THEN Continue(s, i + 1)
                   ELSE Continue(s, return)]
          [] a = "send_message" ->
               [same EXCEPT !.thread =
                   IF c THEN Continue(s, i + 1) ELSE Continue(s, return)]
          [] a = "next_block" ->
               [same EXCEPT !.thread =
                   IF s.blocks > 1
                   THEN Continue([s EXCEPT !.blocks = @ - 1],
                                 CHOOSE j \in DOMAIN prog :
                                     prog[j] = Act("send_message"))
                   ELSE Continue(s, return)]
          [] a = "is_none" ->
               [same EXCEPT !.thread =
                   IF user_registry = "none" THEN Continue(s, i + 1)
                   ELSE Continue(s, NextIndex(prog, i, Act("return")))]
          [] a = "UserRegistry" ->
               [same EXCEPT !.thread =
                   Continue([s EXCEPT !.instance = t], i + 1)]
          [] a = "assign" ->
               [same EXCEPT !.user_registry = s.instance]
          [] a = "return" ->
               [same EXCEPT !.thread =
                   Continue([s EXCEPT !.instance = user_registry], i + 1)]
          [] a = "read_registry" ->
               [same EXCEPT !.thread =
                   IF registry = Truncated THEN Raise(s)
                   ELSE Continue([s EXCEPT !.data = registry], i + 1)]
          [] a = "found" ->
               [same EXCEPT !.thread =
                   IF u \in RegisteredIds(s.data) THEN Continue(s, i + 1)
                   ELSE Continue(s, return)]
          [] a = "truncate_registry" ->
               [same EXCEPT !.registry = Truncated]
          [] a = "write_registry" ->
               [same EXCEPT !.registry = update_last_seen(s.data, u)]
          [] a = "get_flag" ->
               [same EXCEPT !.thread =
                   Continue([s EXCEPT !.enabled = is_enabled(u)], i + 1)]
          [] a = "enabled" ->
               [same EXCEPT !.thread =
                   IF s.enabled THEN Continue(s, i + 1)
                   ELSE Continue(s, return)]
          [] a = "set_flag" ->
               [same EXCEPT !.user_states =
                   SetState(user_states, u, s.enabled)]
          [] a = "pop_flag" ->
               [same EXCEPT !.user_states =
                   [x \in DOMAIN user_states \ {u} |-> user_states[x]]]
          [] a = "add_job" ->
               [same EXCEPT !.pending = AddJobPending(pending, u, s.minutes),
                            !.jobstore = AddJobStore(jobstore, u, s.minutes)]
          [] a = "get_job" ->
               [same EXCEPT !.thread =
                   IF add_user_raises THEN Raise(s) ELSE Continue(s, i + 1)]
          [] a = "job_exists" ->
               [same EXCEPT !.thread =
                   Continue(s, IF job_exists(u) THEN i + 1 ELSE i + 2)]
          [] a = "remove_job" ->
               [same EXCEPT
                   !.pending = IF engine = "stopped" THEN RemovePending(u)
                               ELSE pending,
                   !.jobstore = IF engine = "stopped" THEN jobstore
                                ELSE { j \in jobstore : j.id # u }]
          [] OTHER -> same

\* Caller t executes the statement it is at.
Work(t) ==
    /\ thr[t].pc \in LockOps
    /\ Current(t).do = "act"
    /\ \E c \in BOOLEAN,
          n \in IF Current(t).act = "messages.create" THEN 0..MaxLog ELSE {0} :
         LET r == Outcome(t, c, n)
         IN  /\ thr' = [thr EXCEPT ![t] = r.thread]
             /\ pending' = r.pending
             /\ jobstore' = r.jobstore
             /\ user_states' = r.user_states
             /\ registry' = r.registry
             /\ storage_cache' = r.storage_cache
             /\ messages' = r.messages
             /\ user_registry' = r.user_registry
    /\ ev' = NoEvent
    /\ UNCHANGED lockFrame

\* A process whose start() has returned and found no active user to arm (the
\* registry holds the startup user, deactivated): the engine runs, no job is
\* scheduled, start() has made the first get_user_registry call, the callers
\* are outside every operation.  The startup user's config file is absent,
\* unreadable or good.
LockInit ==
    /\ now = 0
    /\ engine = "running"
    /\ pending = << >>
    /\ jobstore = {}
    /\ instances = [u \in Users |-> 0]
    /\ user_states = [u \in {} |-> TRUE]
    /\ registry \in { r \in RegistryFiles(StartupUsers, {"inactive"}) :
                         RegisteredIds(r) = StartupUsers }
    /\ cfgFile \in { f \in StartupCfgFiles :
                        \A u \in Users :
                            f[u].state = "ok" => f[u] = Config(TRUE, 1) }
    /\ storage_cache = {}
    /\ messages = [u \in Users |-> << >>]
    /\ notes = [u \in Users |-> << >>]
    /\ thr = [t \in Threads |-> Idle]
    /\ user_registry = "main"
    /\ tasks = EmptyBag
    /\ app = "main"
    /\ ev = NoEvent

\* Two callers in any of the operations, all for the startup user: the
\* state, cache and registry locks are shared by all users, the file locks
\* by the callers of one user, so that callers of one user contend most.
LockNext ==
    \/ \E t \in Threads, op \in LockOps, u \in StartupUsers, e \in BOOLEAN :
          Call(t, op, u, e)
    \/ \E t \in Threads : Acquire(t)
    \/ \E t \in Threads : Work(t)
    \/ \E t \in Threads : Release(t)

LockSpec == LockInit /\ [][LockNext]_vars

\* The storage operations of two callers for any two users.
StoreLockNext ==
    \/ \E t \in Threads, u \in Users,
          op \in {"get_user_storage", "get_config", "add_message"} :
          Call(t, op, u, TRUE)
    \/ \E t \in Threads : Acquire(t)
    \/ \E t \in Threads : Work(t)
    \/ \E t \in Threads : Release(t)

StoreLockSpec == LockInit /\ [][StoreLockNext]_vars

\* The registry operations of two callers in a fresh process, where nobody
\* has called get_user_registry yet.
FirstCallNext ==
    \/ \E t \in Threads, u \in Users,
          op \in {"get_user_registry", "update_last_seen"} :
          Call(t, op, u, TRUE)
    \/ \E t \in Threads : Acquire(t)
    \/ \E t \in Threads : Work(t)
    \/ \E t \in Threads : Release(t)

FirstCallSpec == InstanceInit /\ [][FirstCallNext]_vars

TypeOK ==
    /\ now \in 0..MaxTime
    /\ engine \in {"stopped", "running"}
    /\ Len(pending) <= MaxPending
    /\ DOMAIN user_states \subseteq Users
    /\ IsABag(tasks)
    /\ BagCardinality(tasks) <= MaxTasks
    /\ \A k \in BagToSet(tasks) :
          /\ k.user \in Users
          /\ k.at \in {"register_user", "register_user_write", "greeting",
                        "update_last_seen", "update_last_seen_write", "reply",
                        "notice", "test_notice", "report", "response"}
          /\ k.text \in {"message", "test", "on", "off"} \cup Commands
          /\ k.greeted \in BOOLEAN
          /\ k.op \in {"none", "sent", "test_failed", "test_error",
                        "test_silent", "test_message", "status", "model",
                        "heartbeat_status", "status_error",
                        "heartbeat_help"} \cup SwitchOps
          /\ (k.data # << >>) <=> ~LoopIdle /\ k.at \in {"register_user_write",
                                                          "update_last_seen_write"}
          /\ k.user \in RegisteredIds(k.data) \/ k.data = << >>
    /\ app \in {"none", "main"}

----------------------------------------------------------------------------
\* Properties.  A step that is a timer firing of user u leaves ev.user = u and
\* ev.fire >= 0; the end of an awaited send leaves ev.op in SendOps.

TickOps == {"skipped", "loaderror", "raised", "apierror", "silent", "sending"}

\* C1: for every user, at most one execution of heartbeat_job is in flight at
\* any time; an occurrence that falls due while the previous one has not
\* returned starts no second execution.
C1_AtMostOneInFlight == \A u \in Users : instances[u] <= 1

\* An occurrence fell due while the user's execution was still awaiting its
\* send, and was refused.
C1_Witness ==
    \E u \in Users : ev.op = "dropped" /\ ev.user = u /\ instances[u] = 1

\* C2: an occurrence that falls due while the user's execution is running is
\* dropped, not queued: it starts no execution, nothing is started when the
\* running execution ends, every firing serves the latest due time of the
\* job's own cadence only and moves the next run one interval past it (so no
\* due time is served twice), and an execution starts only at its own
\* scheduled time.
C2_DroppedNotQueued ==
    [][ /\ \A u \in Users : (ev'.user = u /\ ev'.fire >= 0) =>
              LET j  == JobIn(jobstore, u)
                  j2 == JobIn(jobstore', u)
              IN  /\ HasJobIn(jobstore', u)
                  /\ j2.interval = j.interval
                  /\ ev'.fire <= now
                  /\ (ev'.fire - j.next) % j.interval = 0
                  /\ j2.next = ev'.fire + j.interval
                  /\ j2.next > now
                  /\ ev'.op = "dropped" =>
                        /\ instances[u] >= 1
                        /\ instances' = instances
                        /\ ev'.calls = 0 /\ ev'.sends = 0
                  /\ ev'.op \in TickOps => (ev'.fire = now /\ instances[u] = 0)
        /\ ev'.op \in SendOps =>
              /\ jobstore' = jobstore
              /\ ev'.calls = 0
              /\ instances'[ev'.user] =
                    IF ev'.op = "sentmore" THEN instances[ev'.user]
                    ELSE instances[ev'.user] - 1
      ]_vars

\* An occurrence was dropped behind a running execution and the job's next
\* run is the following point of its cadence.
C2_Witness ==
    \E u \in Users :
        /\ ev.op = "dropped" /\ ev.user = u
        /\ HasJob(u)
        /\ JobOf(u).next = ev.fire + JobOf(u).interval
        /\ ev.fire = now

ErrorOps == {"loaderror", "raised", "apierror", "senderror", "logerror"}

\* C3: an error raised inside one scheduled tick (store or config load,
\* Executor call, send) does not leave heartbeat_job, and the failing tick
\* leaves the engine running, every enabled flag as it was, every other
\* user's job untouched and the user's own job in place with its interval.
C3_ErrorsContained ==
    [][ \A u \in Users : (ev'.op \in ErrorOps /\ ev'.user = u) =>
            /\ ~ev'.escaped
            /\ engine = "running" /\ engine' = "running"
            /\ user_states' = user_states
            /\ pending' = pending
            /\ { j \in jobstore' : j.id # u } = { j \in jobstore : j.id # u }
            /\ IF ev'.fire >= 0
               THEN /\ HasJobIn(jobstore', u)
                    /\ JobIn(jobstore', u).interval = JobIn(jobstore, u).interval
               ELSE jobstore' = jobstore
      ]_vars

\* A tick of one user failed while another user has a job and a cleared flag.
C3_Witness ==
    \E u, v \in Users :
        /\ u # v
        /\ ev.op \in {"loaderror", "raised"} /\ ev.user = u
        /\ HasJob(u) /\ HasJob(v)
        /\ v \in DOMAIN user_states /\ ~user_states[v]

\* C4: when the Executor call of the tick at time X raises, the user's job
\* stays scheduled with its interval and its next run time is X + interval.
C4_NextTickAfterRaise ==
    [][ \A u \in Users : (ev'.op \in {"raised", "apierror"} /\ ev'.user = u) =>
            /\ ev'.calls = 1
            /\ HasJobIn(jobstore', u)
            /\ JobIn(jobstore', u).interval = JobIn(jobstore, u).interval
            /\ JobIn(jobstore', u).next = ev'.fire + JobIn(jobstore, u).interval
            /\ JobIn(jobstore, u).next <= ev'.fire
            /\ ev'.fire = now
      ]_vars

\* The Executor call of a tick raised and the job is due one interval later.
C4_Witness ==
    \E u \in Users :
        /\ ev.op = "raised" /\ ev.user = u /\ ev.fire = now
        /\ HasJob(u)
        /\ JobOf(u).next = now + JobOf(u).interval

\* C5: a tick that fires while the user's flag is false makes no Executor
\* call, sends nothing and writes nothing; a tick that fires while the flag
\* is true invokes the Executor exactly once, with that user's own store
\* handle and config.  (An occurrence the engine dropped or skipped as missed
\* never entered heartbeat_job and is no tick.)
C5_TickFollowsFlag ==
    (ev.fire >= 0 /\ ev.op \in TickOps) =>
        IF ev.flag
        THEN /\ ev.calls = 1
             /\ ev.store = ev.user
             /\ ev.config = cfgFile[ev.user]
        ELSE ev.calls = 0 /\ ev.sends = 0 /\ ev.writes = 0

\* C6 as stated: after pause_user(id) the flag reads false until the next
\* resume_user(id) or add_user(id, ...) (start() arms users through
\* add_user).  pause_user leaves user_states[id] = False and nothing else, so
\* this says that from a state whose flag of id is false only those calls
\* make is_enabled(id) true.
C6_FalseUntilResumeOrAdd ==
    [][ \A u \in Users :
            (~is_enabled_in(user_states, u) /\ is_enabled_in(user_states', u)) =>
                \/ ResumeUser(u)
                \/ \E m \in Intervals : AddUser(u, m, TRUE)
                \/ Start
      ]_vars

\* C6: once pause_user(id) has returned is_enabled(id) is false, and it
\* stays false until the next resume_user(id), add_user(id, ...) or
\* remove_user(id) (after which the default for an unknown user applies);
\* once resume_user(id) has returned is_enabled(id) is true; neither call
\* removes or replaces a job.
C6_PauseResumeFlag ==
    [][ \A u \in Users :
            /\ PauseUser(u) =>
                  /\ ~is_enabled_in(user_states', u)
                  /\ jobstore' = jobstore /\ pending' = pending
            /\ ResumeUser(u) =>
                  /\ is_enabled_in(user_states', u)
                  /\ jobstore' = jobstore /\ pending' = pending
            /\ (~is_enabled_in(user_states, u) /\ is_enabled_in(user_states', u)) =>
                  \/ ResumeUser(u)
                  \/ \E m \in Intervals : AddUser(u, m, TRUE)
                  \/ Start
                  \/ RemoveUser(u)
      ]_vars

\* A user with a scheduled job on the running engine is paused.
C6_Witness ==
    \E u \in Users :
        /\ engine = "running" /\ HasJob(u)
        /\ u \in DOMAIN user_states /\ ~user_states[u]
        /\ ~is_enabled(u)
        /\ ev = NoEvent

\* C7: pause_user and resume_user change no fire time (jobs, tentative jobs
\* and the clock are as before); every firing, paused or not, serves a point
\* of the job's cadence and moves the next run one interval past it; a tick
\* that fires while paused is a no-op, and a tick that fires while the flag
\* is true is not skipped and runs at its scheduled time.
C7_PauseKeepsCadence ==
    [][ \A u \in Users :
            /\ (PauseUser(u) \/ ResumeUser(u)) =>
                  /\ jobstore' = jobstore
                  /\ pending' = pending
                  /\ now' = now
                  /\ instances' = instances
            /\ (ev'.user = u /\ ev'.fire >= 0) =>
                  /\ (ev'.fire - JobIn(jobstore, u).next) % JobIn(jobstore, u).interval = 0
                  /\ JobIn(jobstore', u).next = ev'.fire + JobIn(jobstore, u).interval
                  /\ ev'.op \in TickOps =>
                        /\ ev'.fire = now
                        /\ ev'.flag = is_enabled_in(user_states, u)
                        /\ (ev'.op = "skipped") = ~is_enabled_in(user_states, u)
                        /\ ev'.op = "skipped" =>
                              /\ ev'.calls = 0 /\ ev'.sends = 0 /\ ev'.writes = 0
                              /\ now' = now /\ instances' = instances
      ]_vars

\* A paused user's timer fired at its scheduled time as a no-op and the job
\* is due again one interval later.
C7_Witness ==
    \E u \in Users :
        /\ ev.op = "skipped" /\ ev.user = u /\ ev.fire = now
        /\ ~is_enabled(u)
        /\ HasJob(u) /\ JobOf(u).next = now + JobOf(u).interval

\* C8: no user id ever has two jobs, tentative or in the job store; add_user
\* on a user that has a job replaces it; after add_user(id, m, e) the flag
\* of id is e and the one job of id has interval m (on the running engine it
\* is due m minutes later); when the engine is started the job of a user is
\* the one of the latest add_user made while it was stopped.
C8_OneJobPerUser ==
    [][ /\ \A j1, j2 \in jobstore' : j1.id = j2.id => j1 = j2
        /\ \A i, k \in DOMAIN pending' : pending'[i].id = pending'[k].id => i = k
        /\ \A u \in Users, m \in Intervals, e \in BOOLEAN : AddUser(u, m, e) =>
              /\ u \in DOMAIN user_states' /\ user_states'[u] = e
              /\ is_enabled_in(user_states', u) = e
              /\ engine = "running" =>
                    /\ HasJobIn(jobstore', u)
                    /\ JobIn(jobstore', u) = [id |-> u, interval |-> m, next |-> now + m]
                    /\ { j \in jobstore' : j.id # u } = { j \in jobstore : j.id # u }
              /\ engine = "stopped" =>
                    /\ HasPendingIn(pending', u)
                    /\ \A i \in DOMAIN pending' :
                          pending'[i].id = u => pending'[i].interval = m
                    /\ SelectSeq(pending', LAMBDA j : j.id # u)
                          = SelectSeq(pending, LAMBDA j : j.id # u)
        /\ (engine = "stopped" /\ engine' = "running") =>
              \A u \in Users : HasPendingIn(pending, u) =>
                  /\ HasJobIn(jobstore', u)
                  /\ LET last == CHOOSE i \in DOMAIN pending :
                                     /\ pending[i].id = u
                                     /\ \A k \in DOMAIN pending :
                                           pending[k].id = u => k <= i
                     IN  JobIn(jobstore', u).interval = pending[last].interval
      ]_vars

ActiveIds(r) == { r[i].id : i \in { k \in DOMAIN r : r[k].status = "active" } }

\* C9: a call of start() on the stopped engine, every active user's config
\* being readable, returns with the engine running and exactly the active
\* users holding a job, each with its persisted interval and flag.
C9_StartArmsActiveUsers ==
    [][ ( /\ Start
          /\ engine = "stopped" /\ pending = << >>
          /\ \A u \in ActiveIds(registry) : get_user_storage_ok(u) /\ get_config_ok(u) )
        => /\ engine' = "running"
           /\ \A u \in Users : HasJobIn(jobstore', u) <=> u \in ActiveIds(registry)
           /\ \A u \in ActiveIds(registry) :
                 /\ JobIn(jobstore', u).interval = cfgFile[u].heartbeat_interval_minutes
                 /\ is_enabled_in(user_states', u) = cfgFile[u].heartbeat_enabled
      ]_vars

\* C10: a user who registers through an inbound message while the scheduler
\* is running has a heartbeat job when the handler that registered the user
\* has returned.
C10_NewUserGetsJob ==
    [][ \A k \in BagToSet(tasks) :
            ( /\ k.text = "message" /\ k.greeted
              /\ tasks' = Resumed(k)
              /\ ev'.user = k.user /\ ~ev'.escaped
              /\ ev'.op \in {"welcome_failed", "msg_unhandled", "msg_noticed",
                             "msg_unnoticed", "msg_quiet", "msg_replied"}
              /\ engine = "running" )
            => HasJobIn(jobstore', k.user)
      ]_vars

\* C11: remove_user(id) cancels the user's job and drops its enabled state,
\* and touches nobody else: when it has returned no job of id is registered
\* and id has no entry, while the jobs and flags of the other users are as
\* before (so a second remove_user(id) finds nothing to do).
C11_RemoveUserCancels ==
    [][ \A u \in Users : RemoveUser(u) =>
            /\ ~job_exists_in(pending', jobstore', u)
            /\ u \notin DOMAIN user_states'
            /\ \A v \in Users \ {u} :
                  /\ is_enabled_in(user_states', v) = is_enabled_in(user_states, v)
                  /\ (v \in DOMAIN user_states') = (v \in DOMAIN user_states)
            /\ { j \in jobstore' : j.id # u } = { j \in jobstore : j.id # u }
            /\ SelectSeq(pending', LAMBDA j : j.id # u)
                  = SelectSeq(pending, LAMBDA j : j.id # u)
      ]_vars

\* C12: is_enabled(id) is the flag last set for id by add_user, pause_user or
\* resume_user (start() sets it through add_user, from the persisted config),
\* nothing else changes it, and it is true for every id without an entry in
\* the enabled-state map, in particular right after remove_user(id).
C12_IsEnabledLastSet ==
    [][ \A u \in Users :
            /\ u \notin DOMAIN user_states' => is_enabled_in(user_states', u)
            /\ u \in DOMAIN user_states' =>
                  is_enabled_in(user_states', u) = user_states'[u]
            /\ PauseUser(u) => ~is_enabled_in(user_states', u)
            /\ ResumeUser(u) => is_enabled_in(user_states', u)
            /\ RemoveUser(u) => is_enabled_in(user_states', u)
            /\ \A m \in Intervals, e \in BOOLEAN :
                  AddUser(u, m, e) => is_enabled_in(user_states', u) = e
            /\ is_enabled_in(user_states', u) # is_enabled_in(user_states, u) =>
                  \/ PauseUser(u)
                  \/ ResumeUser(u)
                  \/ RemoveUser(u)
                  \/ \E m \in Intervals, e \in BOOLEAN : AddUser(u, m, e)
                  \/ /\ Start
                     /\ u \in ActiveIds(registry)
                     /\ is_enabled_in(user_states', u) = cfgFile[u].heartbeat_enabled
      ]_vars

\* On the running engine one user has no entry and reads enabled while the
\* other user's entry is False.
C12_Witness ==
    \E u, v \in Users :
        /\ engine = "running" /\ now > 0
        /\ u \notin DOMAIN user_states /\ is_enabled(u)
        /\ v \in DOMAIN user_states /\ ~user_states[v] /\ ~is_enabled(v)
        /\ HasJob(v)

\* C13: in every state get_user_status(id) returns, with enabled =
\* is_enabled(id), job_exists = (a job of id is registered) and next_run =
\* that job's next fire time, next_run being null exactly when there is no
\* job.
C13_StatusReflectsState ==
    \A u \in Users :
        LET st == get_user_status(u)
        IN  /\ ~st.raised
            /\ st.enabled = is_enabled(u)
            /\ st.job_exists = job_exists(u)
            /\ (st.next_run = NoRunTime) = ~job_exists(u)
            /\ (engine = "running" /\ HasJob(u)) => st.next_run = JobOf(u).next

\* C14: once stop() has returned no tick begins for any user (no job is left
\* and nothing fires while the engine is stopped), and an execution that was
\* in flight when stop() was called stays in flight, to run to its end.
C14_StopSparesInFlight ==
    [][ /\ Stop => /\ engine' = "stopped"
                   /\ jobstore' = {}
                   /\ instances' = instances
        /\ engine = "stopped" => ev'.fire < 0
      ]_vars

StatusOf(r, u) == r[CHOOSE i \in DOMAIN r : r[i].id = u].status

\* C15: deactivate_user(id) sets the registry status of id to inactive and
\* changes nothing in the scheduler: when its write returns the file holds
\* the user as inactive, and neither its read nor its write changes the
\* jobs, the tentative jobs, the flags, the engine or the executions in
\* flight; and the timer of a user who is not active goes on firing on its
\* cadence.
C15_DeactivateLeavesScheduler ==
    [][ \A u \in Users :
            /\ \A t \in RegistryCallers :
                  ( /\ thr'[t] # thr[t]
                    /\ \/ thr[t].pc = "deactivate_user" /\ thr[t].user = u
                       \/ thr'[t].pc = "deactivate_user" /\ thr'[t].user = u )
                  => /\ thr[t].pc = "deactivate_user" =>
                           /\ u \in RegisteredIds(registry')
                           /\ StatusOf(registry', u) = "inactive"
                     /\ jobstore' = jobstore
                     /\ pending' = pending
                     /\ user_states' = user_states
                     /\ engine' = engine
                     /\ instances' = instances
            /\ ( /\ thr' = thr
                 /\ ev'.user = u /\ ev'.fire >= 0
                 /\ u \notin ActiveIds(registry) ) =>
                  /\ HasJobIn(jobstore', u)
                  /\ JobIn(jobstore', u).next = ev'.fire + JobIn(jobstore, u).interval
                  /\ ev'.op \in TickOps => ev'.fire = now
      ]_vars

\* The timer of a deactivated user has just fired at its scheduled time and
\* the job is still registered.
C15_Witness ==
    \E u \in Users :
        /\ u \in RegisteredIds(registry) /\ StatusOf(registry, u) = "inactive"
        /\ ev.user = u /\ ev.fire = now /\ ev.op \in TickOps
        /\ HasJob(u)

\* C16: for every user id, every call of get_user_storage returns the one
\* handle of that id: the call raises nothing, the id is cached afterwards,
\* a handle is constructed only for an id that had none, and a cached handle
\* stays cached; also for first calls from several callers for a never-seen
\* id.
C16_OneHandlePerUser ==
    [][ \A t \in Threads, u \in Users :
            GetUserStorage(t, u) =>
                /\ ~thr'[t].raised
                /\ u \in storage_cache'
                /\ storage_cache \subseteq storage_cache'
                /\ storage_cache' \ storage_cache \subseteq {u}
      ]_vars

\* C17: add_message calls made at the same time against one user's handle
\* never lose an entry: the write of every call leaves the log as it was in
\* the file, whole and in order, with the call's entry appended, so that the
\* log holds the entries of all the calls once they have returned.
C17_ConcurrentAddsKept ==
    [][ \A t \in Threads :
            AddMessageWrite(t) =>
                messages'[thr[t].user] =
                    Append(messages[thr[t].user], thr[t].entry)
      ]_vars

\* C18: every mutation of a per-user file is one read-modify-write critical
\* section: no other write on the file falls between the read and the write
\* of a mutation, so the write of update_config sets its field in the config
\* as the file holds it, and two calls made at the same time that set
\* different fields both persist.
C18_MutationIsCriticalSection ==
    [][ \A t \in Threads :
            UpdateConfigWrite(t) =>
                /\ thr[t].config = cfgFile[thr[t].user]
                /\ cfgFile'[thr[t].user] =
                      update_config(cfgFile[thr[t].user], thr[t].kwargs,
                                    thr[t].data.updated_at)
      ]_vars

\* C19: on a log of n entries get_recent_messages(k) returns exactly the
\* last k entries, in the order of the log, for every k with 0 <= k <= n, all
\* n entries when k > n, and all n entries when called with no argument; the
\* entry add_message writes is the last one, after the entries it read.
C19_RecentAreLastK ==
    [][ /\ \A t \in Threads, u \in Users, k \in Limits :
              GetRecentMessages(t, u, k) =>
                  LET n == Len(messages[u])
                  IN  thr'[t].data =
                          IF k = NoLimit \/ k > n THEN messages[u]
                          ELSE SubSeq(messages[u], n - k + 1, n)
        /\ \A t \in Threads :
              AddMessageWrite(t) =>
                  LET log == messages'[thr[t].user]
                  IN  /\ log[Len(log)] = thr[t].entry
                      /\ SubSeq(log, 1, Len(log) - 1) = thr[t].data
      ]_vars

\* log1 is the beginning of log2: every entry of log1 is in log2, unchanged
\* and at the same position.
IsPrefix(log1, log2) ==
    /\ Len(log1) <= Len(log2)
    /\ \A i \in 1..Len(log1) : log2[i] = log1[i]

\* C20: the message log and the note log of a user are append-only: whatever
\* operation is made on the user's handle, every entry that was in a log
\* before it is there afterwards, unchanged and at the same position; and
\* get_notes returns all the notes in insertion order.
C20_LogsAppendOnly ==
    [][ \A u \in Users :
            /\ IsPrefix(messages[u], messages'[u])
            /\ IsPrefix(notes[u], notes'[u])
            /\ get_notes(notes'[u]) = notes'[u]
      ]_vars

\* C21: update_config(fields) changes only the given fields and updated_at:
\* a field not named in the call is unchanged, a user_id or created_at given
\* in the call is ignored, a key that is no field of the config is ignored
\* (none is added), every other given field takes its value, and updated_at
\* is refreshed on every call: it is set to the time the call reads the clock,
\* after its read of the file and before its write, whatever the earlier
\* value.  The calls are made one after the other.
C21_UpdateChangesGivenFields ==
    [][ \A t \in ConfigCallers :
            LET u == thr[t].user
                kwargs == thr[t].kwargs
            IN  /\ UpdateConfigStamp(t) =>
                      /\ thr'[t].data.updated_at = now
                      /\ thr[t].config = cfgFile[u]
                /\ UpdateConfigWrite(t) =>
                      /\ DOMAIN cfgFile'[u] = DOMAIN cfgFile[u]
                      /\ cfgFile'[u].user_id = cfgFile[u].user_id
                      /\ cfgFile'[u].created_at = cfgFile[u].created_at
                      /\ cfgFile'[u].updated_at = thr[t].data.updated_at
                      /\ cfgFile'[u].updated_at >= cfgFile[u].updated_at
                      /\ cfgFile'[u].updated_at <= now
                      /\ \A k \in DOMAIN cfgFile[u] \ {"updated_at"} :
                            /\ k \notin DOMAIN kwargs =>
                                  cfgFile'[u][k] = cfgFile[u][k]
                            /\ (/\ k \in DOMAIN kwargs
                                /\ k \in ConfigKeys(cfgFile[u])
                                /\ k \notin {"user_id", "created_at"}) =>
                                  cfgFile'[u][k] = kwargs[k]
                      /\ \A v \in Users \ {u} : cfgFile'[v] = cfgFile[v]
      ]_vars

\* update_config(model=..., user_id=...) has just returned on a config file
\* whose updated_at was older: the model is the one given, the user_id is
\* the owner's, and updated_at is the time the call read the clock, a minute
\* before it wrote.
C21_Witness ==
    \E t \in ConfigCallers :
        /\ thr[t].pc = "idle"
        /\ DOMAIN thr[t].kwargs = {"model", "user_id"}
        /\ ~thr[t].raised
        /\ cfgFile[thr[t].user] = thr[t].data
        /\ thr[t].config.model # thr[t].kwargs["model"]
        /\ cfgFile[thr[t].user].model = thr[t].kwargs["model"]
        /\ cfgFile[thr[t].user].user_id = "own"
        /\ cfgFile[thr[t].user].updated_at > thr[t].config.updated_at
        /\ cfgFile[thr[t].user].updated_at < now

\* C22: once a user's config record exists, no operation of the config store
\* changes its user_id or its created_at or removes the record, and the
\* record changes only by the write of an update_config call on that user,
\* which keeps the keys of the record (a partial update).
C22_IdentityFieldsFixed ==
    [][ \A u \in Users :
            cfgFile[u].state = "ok" =>
                /\ cfgFile'[u].state = "ok"
                /\ cfgFile'[u].user_id = cfgFile[u].user_id
                /\ cfgFile'[u].created_at = cfgFile[u].created_at
                /\ DOMAIN cfgFile'[u] = DOMAIN cfgFile[u]
                /\ cfgFile'[u] # cfgFile[u] =>
                      \E t \in ConfigCallers :
                          UpdateConfigWrite(t) /\ thr[t].user = u
      ]_vars

\* update_config(user_id=..., created_at=...) has returned on the record of
\* a user, after the clock moved: the record was written (its updated_at is
\* later than its created_at) and holds the owner's id and the old
\* created_at.
C22_Witness ==
    \E t \in ConfigCallers :
        /\ thr[t].pc = "idle"
        /\ DOMAIN thr[t].kwargs = {"user_id", "created_at"}
        /\ ~thr[t].raised
        /\ cfgFile[thr[t].user] = thr[t].data
        /\ cfgFile[thr[t].user].user_id = "own"
        /\ cfgFile[thr[t].user].user_id # thr[t].kwargs["user_id"]
        /\ cfgFile[thr[t].user].created_at # thr[t].kwargs["created_at"]
        /\ cfgFile[thr[t].user].updated_at > cfgFile[thr[t].user].created_at

\* C23: in every reachable state the heartbeat_interval_minutes of every
\* persisted config is a positive integer, whatever update_config calls
\* were made, and every job of the scheduler has a positive interval.
C23_IntervalPositive ==
    /\ \A u \in Users :
          cfgFile[u].state = "ok" => cfgFile[u].heartbeat_interval_minutes > 0
    /\ \A j \in jobstore : j.interval > 0
    /\ \A i \in DOMAIN pending : pending[i].interval > 0

\* C24: in every reachable state the registry holds at most one record per
\* user id, under any interleaving of register_user calls with each other
\* and with the other registry calls, two first registrations of one id at
\* the same time included.
C24_OneRecordPerUser ==
    \A i, j \in DOMAIN registry : registry[i].id = registry[j].id => i = j

\* Two callers registered the same unknown id at the same time: one has
\* written and returned, the other read the file before that write and has
\* still to write.
C24_Witness ==
    \E t1, t2 \in Threads :
        /\ t1 # t2
        /\ thr[t1].pc = "idle" /\ thr[t1].data # << >>
        /\ thr[t2].pc = "register_user"
        /\ thr[t1].user = thr[t2].user
        /\ thr[t1].user \in RegisteredIds(registry)
        /\ Len(thr[t2].data) = 1
        /\ Len(registry) = 1

\* C25: register_user is idempotent.  Called by one caller for an id the
\* registry holds, it returns the stored record and writes nothing; called
\* for an id the registry does not hold, it writes the registry with
\* exactly one record added at the end, of that id, with status active and
\* registered_at equal to last_seen, and returns that record.
C25_RegisterIdempotent ==
    [][\A t \in RegistryCallers :
          /\ \A u \in Users :
                RegisterUserRead(t, u) =>
                    /\ registry' = registry
                    /\ IF u \in RegisteredIds(registry)
                       THEN /\ thr'[t].pc = "idle"
                            /\ thr'[t].data = << registry[FirstIndex(registry, u)] >>
                       ELSE thr'[t].pc = "register_user"
          /\ (RegistryWrite(t) /\ thr[t].pc = "register_user") =>
                /\ thr[t].user \notin RegisteredIds(registry)
                /\ Len(registry') = Len(registry) + 1
                /\ SubSeq(registry', 1, Len(registry)) = registry
                /\ registry'[Len(registry')].id = thr[t].user
                /\ registry'[Len(registry')].status = "active"
                /\ registry'[Len(registry')].registered_at
                       = registry'[Len(registry')].last_seen
                /\ thr'[t].data = << registry'[Len(registry')] >>]_vars

\* register_user added a record at time 1; the record was touched later and
\* a second register_user of the same id has returned the stored record,
\* of which the registry still holds one.
C25_Witness ==
    \E t \in RegistryCallers, i \in DOMAIN registry :
        /\ thr[t].pc = "idle"
        /\ thr[t].data = << registry[i] >>
        /\ registry[i].id = thr[t].user
        /\ registry[i].registered_at = 1
        /\ registry[i].last_seen = 2
        /\ \A j \in DOMAIN registry : registry[j].id = registry[i].id => j = i

\* C26: update_last_seen and deactivate_user, called by one caller for an id
\* the registry does not hold, raise nothing, write nothing and return; called
\* for an id it holds they write the registry with only the last_seen,
\* respectively only the status (set to inactive), of the first record of
\* that id changed.
C26_TouchAndDeactivate ==
    [][\A t \in RegistryCallers :
          /\ \A u \in Users :
                (UpdateLastSeenRead(t, u) \/ DeactivateUserRead(t, u)) =>
                    /\ registry' = registry
                    /\ ~thr'[t].raised
                    /\ u \notin RegisteredIds(registry) => thr'[t].pc = "idle"
          /\ (RegistryWrite(t) /\ thr[t].pc = "update_last_seen") =>
                /\ thr[t].user \in RegisteredIds(registry)
                /\ DOMAIN registry' = DOMAIN registry
                /\ \A i \in DOMAIN registry :
                      registry'[i] =
                          IF i = FirstIndex(registry, thr[t].user)
                          THEN [registry[i] EXCEPT
                                    !.last_seen = registry'[i].last_seen]
                          ELSE registry[i]
          /\ (RegistryWrite(t) /\ thr[t].pc = "deactivate_user") =>
                /\ thr[t].user \in RegisteredIds(registry)
                /\ DOMAIN registry' = DOMAIN registry
                /\ \A i \in DOMAIN registry :
                      registry'[i] =
                          IF i = FirstIndex(registry, thr[t].user)
                          THEN [registry[i] EXCEPT !.status = "inactive"]
                          ELSE registry[i]]_vars

\* A record found at startup has been touched at time 2 and deactivated, and
\* a call for an id the registry does not hold has returned.
C26_Witness ==
    \E t \in RegistryCallers :
        /\ thr[t].pc = "idle"
        /\ thr[t].user \in Users \ RegisteredIds(registry)
        /\ thr[t].data = << >>
        /\ ~thr[t].raised
        /\ Len(registry) = 1
        /\ registry[1].status = "inactive"
        /\ registry[1].registered_at = 0
        /\ registry[1].last_seen = 2

\* C27: a malformed or missing config file of a user never reaches the
\* scheduling loop.  A start() on the stopped engine with such a file among
\* the active users still returns with the engine running and a job for
\* every active user, and a tick of a user with such a file does not end in
\* a load error.
C27_BadConfigFallsBack ==
    [][ /\ ( /\ Start
             /\ engine = "stopped" /\ pending = << >>
             /\ \E u \in ActiveIds(registry) : ~get_config_ok(u) )
           => /\ engine' = "running"
              /\ \A u \in ActiveIds(registry) : HasJobIn(jobstore', u)
        /\ \A u \in Users :
              (Fire(u) /\ ~get_config_ok(u)) => ev'.op # "loaderror"
      ]_vars

\* C28: a tick of user A, however long its API call blocks, does not delay
\* a tick of another user B.  When the engine processes B's job right after
\* a tick of A that made the API call, and B's job was not yet overdue when
\* A's occurrence fell due, B's occurrence is on time and is not skipped as
\* missed.
C28_SlowTickDelaysNoOther ==
    [][\A a, b \in Users :
          ( /\ a # b
            /\ ev.user = a /\ ev.fire >= 0 /\ ev.calls = 1
            /\ Fire(b)
            /\ JobOf(b).next >= ev.fire )
          => /\ JobOf(b).next = now
             /\ ev'.op # "missed"
      ]_vars

\* C29: when the handling of an inbound text message of a user fails on the
\* direct path (fetching the store, logging the user's message, reading the
\* config, the API call, sending or logging the reply), the failure reaches
\* the except of on_user_message, which sends the failure notice to that
\* user or at least attempts the send: no such handling ends with the
\* exception leaving the handler or with no notice attempted.
C29_FailureGetsNotice ==
    [][\A u \in Users :
          ( /\ ev'.user = u
            /\ ev'.op \in {"msg_unhandled", "msg_noticed", "msg_unnoticed"} )
          => /\ ev'.op \in {"msg_noticed", "msg_unnoticed"}
             /\ ~ev'.escaped
      ]_vars

\* C30: a failed heartbeat tick is silent.  A tick in which a step raises
\* (the load of the store or the config, the API call, the send, the append
\* to the log) delivers no message to the user and sends no error text.
C30_FailedTickSilent ==
    [][ \A u \in Users : (ev'.op \in ErrorOps /\ ev'.user = u) =>
            /\ ev'.sends = 0
            /\ messages'[u] = messages[u]
      ]_vars

\* C36: after any sequence of add_user, remove_user, pause_user and
\* resume_user calls a user has an entry in the enabled-state map exactly
\* when it has a job; pause_user and resume_user of a user the scheduler
\* does not know add no entry.
C36_EntryIffJob ==
    \A u \in Users : u \in DOMAIN user_states <=> job_exists(u)

\* C39: a completed registry mutation is not undone by a concurrent one.
\* Once deactivate_user(id) has written and returned, so that the file holds
\* the user as inactive, the user stays in the file and stays inactive
\* whatever a call that was running at the same time writes afterwards.
C39_DeactivationStays ==
    [][ \A u \in Users :
          (u \in RegisteredIds(registry) /\ StatusOf(registry, u) = "inactive")
          => (u \in RegisteredIds(registry') /\ StatusOf(registry', u) = "inactive")
      ]_vars

\* C31: a "...heartbeat test" does not alter the schedule or the
\* conversation.  In every step of its handler the engine, the user's job
\* with its next fire time, the tentative jobs and every enabled flag are
\* as before and nothing is appended to the message log, and the handler
\* sends the user at most the greeting of a new user, the notice that the
\* check runs and the debug report: the chosen message is not sent.
C31_DebugLeavesSchedule ==
    [][ \A u \in Users :
            ( \/ HeartbeatTest(u)
              \/ \E k \in BagToSet(tasks) :
                    /\ k.user = u /\ k.text = "test"
                    /\ \/ HandlerRead(k) \/ HandlerWrite(k) \/ WelcomeSent(k)
                       \/ TestNoticeSent(k) \/ ReportSent(k) )
            => /\ engine' = engine
               /\ jobstore' = jobstore
               /\ pending' = pending
               /\ user_states' = user_states
               /\ instances' = instances
               /\ messages' = messages
               /\ ev'.writes = 0
               /\ ev'.sends <= 2 + (IF ev'.op \in {"greeting", "welcome_failed"}
                                       \/ \E k \in BagToSet(tasks) :
                                             k.user = u /\ k.greeted
                                    THEN 1 ELSE 0)
      ]_vars

\* A debug run of a user whose flag is off chose a message: the user has
\* its job, the message log is empty and only the notice and the report
\* were sent.
C31_Witness ==
    \E u \in Users :
        /\ ev.op = "test_message" /\ ev.user = u
        /\ ~ev.flag /\ ~is_enabled(u)
        /\ HasJob(u) /\ JobOf(u).next > now
        /\ ev.calls = 1 /\ ev.sends = 2
        /\ messages[u] = << >>

\* C38: counting scheduled ticks and debug runs, at most one
\* process_heartbeat execution of a user is in progress at any time: a
\* "...heartbeat test" calls process_heartbeat only when no scheduled tick
\* of that user is in flight.
C38_OneHeartbeatAtATime ==
    [][ \A k \in BagToSet(tasks) :
          (TestNoticeSent(k) /\ ev'.calls = 1) => instances[k.user] = 0
      ]_vars

\* C37: whenever no "...heartbeat on" or "...heartbeat off" command is in
\* progress, the in-memory enabled flag of every user the scheduler knows
\* equals the heartbeat_enabled of the user's persisted config, also after
\* a command whose update_config step failed.
C37_FlagEqualsPersisted ==
    \A u \in DOMAIN user_states :
        ( /\ get_config_ok(u)
          /\ \A k \in BagToSet(tasks) : k.user = u => k.text \notin {"on", "off"} )
        => user_states[u] = cfgFile[u].heartbeat_enabled

\* C34: the storage-handle cache lock is held only for the cache lookup and
\* insert: in no reachable state does a caller hold _cache_lock while it is
\* in file I/O (creating the user directory, testing for or writing the
\* initial files of a new user).
C34_CacheLockBrief ==
    \A t \in Threads : CacheLock \in thr[t].locks => ~DoingIO(t)

\* C32: operations on different users never block each other: no caller
\* is at a lock that a caller for a different user holds while that one is
\* in file I/O.
C32_NoCrossUserBlocking ==
    \A a, b \in Threads :
        (/\ thr[a].user \in Users /\ thr[b].user \in Users
         /\ thr[a].user # thr[b].user
         /\ DoingIO(a)
         /\ Current(b).do = "acquire")
        => Current(b).lock \notin thr[a].locks

\* C33: the scheduler's state_lock is held only for the flag lookup or update
\* itself: a caller that holds it is at the statement that reads or changes
\* the flag map or is leaving the `with` block, never in an Executor call
\* (API, Telegram), a file access or a job add, lookup or removal, and never at
\* another lock.
C33_StateLockBrief ==
    \A t \in Threads :
        StateLock \in thr[t].locks =>
            /\ thr[t].locks = {StateLock}
            /\ \/ Current(t) = Rel(StateLock)
               \/ /\ Current(t).do = "act"
                  /\ Current(t).act \in {"get_flag", "set_flag", "pop_flag"}
                  /\ Current(t).act \notin
                        {"messages.create", "send_message"} \cup FileActs
                        \cup {"add_job", "get_job", "job_exists", "remove_job"}

\* A caller holds state_lock for a flag update of add_user while the other
\* caller's tick is in its API call.
C33_Witness ==
    \E t, o \in Threads :
        /\ thr[t].pc = "add_user" /\ StateLock \in thr[t].locks
        /\ Current(t).act = "set_flag"
        /\ thr[o].pc = "heartbeat_job" /\ Current(o).act = "messages.create"

\* C35: no interleaving of scheduler operations, ticks, get_user_storage
\* calls and store and registry operations deadlocks.  Locks are nested only
\* in the order cache lock, then a per-file lock, so a caller that enters a
\* `with lock:` block while it holds a lock holds the cache lock alone,
\* never state_lock.  No caller waits for a lock it holds itself or for a
\* lock whose holder waits as well, and a caller outside every operation
\* holds no lock.  Every caller that has acquired a lock releases it: it is
\* never blocked while it holds one, and each of its steps takes it out of
\* its operation, or to a later statement of it, or, in the loop of a tick
\* over the send_message blocks of the response, back to the send with one
\* block fewer to go through; the number of blocks is set once, by the API
\* call, which lies before the loop.  So it reaches the end of its `with`
\* blocks after finitely many of its own steps.
C35_NoDeadlock ==
    /\ [](\A t \in Threads :
            /\ (Current(t).do = "acquire" /\ thr[t].locks # {}) =>
                  /\ thr[t].locks = {CacheLock}
                  /\ Current(t).lock.kind \in
                        {"messages.json", "scratchpad.json",
                         "user_config.json"}
            /\ Current(t).do = "acquire" =>
                  Current(t).lock \notin thr[t].locks
            /\ Waiting(t) =>
                  \A o \in Threads \ {t} :
                      Current(t).lock \in thr[o].locks => ~Waiting(o)
            /\ thr[t].pc = "idle" => thr[t].locks = {}
            /\ thr[t].locks # {} => ~Waiting(t))
    /\ [][\A t \in Threads :
            (thr[t].pc # "idle" /\ thr'[t] # thr[t]) =>
                \/ thr'[t].pc = "idle"
                \/ /\ thr'[t].pc = thr[t].pc
                   /\ thr'[t].step > thr[t].step
                   /\ \/ thr'[t].blocks = thr[t].blocks
                      \/ /\ Current(t) = Act("messages.create")
                         /\ thr[t].blocks = 0
                         /\ thr'[t].blocks \in 0..MaxLog
                \/ /\ thr'[t].pc = thr[t].pc
                   /\ thr'[t].step <= thr[t].step
                   /\ thr'[t].blocks < thr[t].blocks
                   /\ thr'[t].blocks > 0
                   /\ thr'[t].locks = {}
                   /\ \E j \in 1..(thr'[t].step - 1) :
                          Steps(thr[t])[j] = Act("messages.create")
        ]_vars

\* A caller holds the cache lock and, nested in it, the lock of a new
\* user's message store, while the other caller waits for the cache lock.
C35_Witness ==
    \E t, o \in Threads :
        /\ thr[t].locks = {CacheLock, FileLock(thr[t].user, "messages.json")}
        /\ Waiting(o) /\ Current(o).lock = CacheLock

\* C40: get_user_registry hands every caller the same UserRegistry instance,
\* also when callers make the first call at the same time: at most one
\* instance is ever constructed.  The instances in existence are the one
\* _user_registry refers to and those that callers have constructed or been
\* handed.
C40_OneRegistry ==
    Cardinality(({user_registry} \cup { thr[t].instance : t \in Threads })
                \ {"none"}) <= 1

====
